---------------------------- MODULE Spec2Model ----------------------------
(***************************************************************************)
(* A model of mdaudiobook's text pipeline: the LaTeX-to-speech transducer  *)
(* (TextEnhancer._fallback_latex_to_speech and its rule table), the        *)
(* per-node body pipeline, the annotation traversal                        *)
(* (TextEnhancer.enhance_document) and the chapter segmenter               *)
(* (AudiobookGenerator._split_into_chapters).                              *)
(*                                                                         *)
(* Strings are TLA+ strings; positions are 1-based here and 0-based in the *)
(* Python source, so a Python slice s[a:b] is SubSeq(s, a+1, b).           *)
(***************************************************************************)
EXTENDS Integers, Sequences, FiniteSets, TLC

(***************************************************************************)
(* Strings                                                                 *)
(***************************************************************************)
At(s, i) == SubSeq(s, i, i)

StartsAt(s, i, p) == i + Len(p) - 1 <= Len(s) /\ SubSeq(s, i, i + Len(p) - 1) = p

\* Python slice s[a:b] with 0-based a, b already clamped by the caller.
Slice(s, a, b) == SubSeq(s, a + 1, b)

Min(a, b) == IF a < b THEN a ELSE b
Max(a, b) == IF a > b THEN a ELSE b

\* Python slicing clamps its bounds to the string.
PySlice(s, a, b) == Slice(s, Min(Max(a, 0), Len(s)), Min(Max(b, 0), Len(s)))

LowerCase == {"a", "b", "c", "d", "e", "f", "g", "h", "i", "j", "k", "l", "m",
              "n", "o", "p", "q", "r", "s", "t", "u", "v", "w", "x", "y", "z"}
UpperCase == {"A", "B", "C", "D", "E", "F", "G", "H", "I", "J", "K", "L", "M",
              "N", "O", "P", "Q", "R", "S", "T", "U", "V", "W", "X", "Y", "Z"}
Letters == LowerCase \cup UpperCase
Digits == {"0", "1", "2", "3", "4", "5", "6", "7", "8", "9"}
\* \w of Python's re, on the ASCII characters the model uses
WordChars == Letters \cup Digits \cup {"_"}
\* \s of Python's re, and the characters str.strip() and str.split() remove
SpaceChars == {" ", "\t", "\n", "\r", "\f"}

\* The least element of a non-empty set of integers
Least(S) == CHOOSE x \in S : \A y \in S : x <= y

Greatest(S) == CHOOSE x \in S : \A y \in S : x >= y

\* The members of a set of integers in ascending order
RECURSIVE Ascending(_)
Ascending(S) == IF S = {} THEN <<>> ELSE <<Least(S)>> \o Ascending(S \ {Least(S)})

\* str.find from 1-based position i: the first position of p at or after i, 0 if none
Find(s, p, i) ==
    LET hits == {j \in i..(Len(s) - Len(p) + 1) : StartsAt(s, j, p)}
    IN  IF hits = {} THEN 0 ELSE Least(hits)

Contains(s, p) == Find(s, p, 1) # 0

\* TRUE of every string.  Where it guards a definition, s is evaluated before
\* the definition reads it, so that the evaluations of a chain of string
\* operations follow one another and do not nest
Evaluated(s) == Len(s) >= 0

RECURSIVE Count(_, _, _)
\* str.count: non-overlapping occurrences of p from position i
Count(s, p, i) ==
    LET j == Find(s, p, i)
    IN  IF j = 0 THEN 0 ELSE 1 + Count(s, p, j + Len(p))

RECURSIVE StrReplaceFrom(_, _, _, _)
StrReplaceFrom(s, old, new, i) ==
    LET j == Find(s, old, i)
    IN  IF j = 0 THEN SubSeq(s, i, Len(s))
        ELSE SubSeq(s, i, j - 1) \o new \o StrReplaceFrom(s, old, new, j + Len(old))

\* str.replace(old, new) for a non-empty old
StrReplace(s, old, new) ==
    IF Evaluated(s) /\ Len(old) # 0 THEN StrReplaceFrom(s, old, new, 1) ELSE s

RECURSIVE LStripFrom(_, _)
LStripFrom(s, i) ==
    IF i > Len(s) THEN Len(s) + 1
    ELSE IF At(s, i) \in SpaceChars THEN LStripFrom(s, i + 1) ELSE i

RECURSIVE RStripFrom(_, _)
RStripFrom(s, j) ==
    IF j < 1 THEN 0
    ELSE IF At(s, j) \in SpaceChars THEN RStripFrom(s, j - 1) ELSE j

\* str.strip()
Strip(s) == IF Evaluated(s) THEN SubSeq(s, LStripFrom(s, 1), RStripFrom(s, Len(s))) ELSE s

(***************************************************************************)
(* Integers as text: str(n) and int(s), as the f-strings and               *)
(* map(int, key.split(':')) of the program use them                        *)
(***************************************************************************)
DigitChars == <<"0", "1", "2", "3", "4", "5", "6", "7", "8", "9">>

RECURSIVE NatToStr(_)
NatToStr(n) == IF n < 10 THEN DigitChars[n + 1] ELSE NatToStr(n \div 10) \o DigitChars[(n % 10) + 1]

\* str(n)
IntToStr(n) == IF n < 0 THEN "-" \o NatToStr(0 - n) ELSE NatToStr(n)

DigitValue(c) == CHOOSE d \in 0..9 : DigitChars[d + 1] = c

RECURSIVE StrToNat(_)
StrToNat(s) ==
    IF Len(s) = 0 THEN 0 ELSE 10 * StrToNat(SubSeq(s, 1, Len(s) - 1)) + DigitValue(At(s, Len(s)))

\* int(s) accepts an optional sign and decimal digits
IsInt(s) ==
    LET d == IF Len(s) > 0 /\ At(s, 1) \in {"-", "+"} THEN SubSeq(s, 2, Len(s)) ELSE s
    IN  Len(d) > 0 /\ \A k \in 1..Len(d) : At(d, k) \in Digits

\* int(s) for a string that IsInt admits
StrToInt(s) ==
    IF At(s, 1) = "-" THEN 0 - StrToNat(SubSeq(s, 2, Len(s)))
    ELSE IF At(s, 1) = "+" THEN StrToNat(SubSeq(s, 2, Len(s)))
    ELSE StrToNat(s)

\* RangeKey with the end before the start
RangeKeyEndFirst(start, end) == IntToStr(end) \o ":" \o IntToStr(start)

\* f"{start}:{end}"
RangeKey(start, end) == IntToStr(start) \o ":" \o IntToStr(end)

\* range_start, range_end = map(int, range_key.split(':'))
RangeStart(key) == StrToInt(SubSeq(key, 1, Find(key, ":", 1) - 1))
RangeEnd(key) == StrToInt(SubSeq(key, Find(key, ":", 1) + 1, Len(key)))

(***************************************************************************)
(* A dict in insertion order: a sequence of [key, value] records with      *)
(* distinct keys                                                           *)
(***************************************************************************)
DictHas(d, k) == \E n \in DOMAIN d : d[n].key = k

DictGet(d, k) == d[CHOOSE n \in DOMAIN d : d[n].key = k].value

\* d[k] = v: an existing key keeps its place and takes the new value
DictSet(d, k, v) ==
    IF DictHas(d, k)
    THEN [n \in DOMAIN d |-> IF d[n].key = k THEN [key |-> k, value |-> v] ELSE d[n]]
    ELSE Append(d, [key |-> k, value |-> v])

(***************************************************************************)
(* Python's re: a backtracking matcher over pattern items.  A pattern is a *)
(* sequence of items; matching follows re's priorities (alternatives left  *)
(* to right, greedy repetition longest first, lazy shortest first).        *)
(***************************************************************************)
Inf == 0 - 1

Lit(s) == [t |-> "lit", s |-> s]
\* the same literal under re.IGNORECASE
LitCI(s) == [t |-> "litci", s |-> s]
OneOf(cs) == [t |-> "set", neg |-> FALSE, cs |-> cs]
NoneOf(cs) == [t |-> "set", neg |-> TRUE, cs |-> cs]
Rep(x, lo, hi, lazy) == [t |-> "rep", x |-> x, lo |-> lo, hi |-> hi, lazy |-> lazy]
Plus(x) == Rep(x, 1, Inf, FALSE)
Star(x) == Rep(x, 0, Inf, FALSE)
LazyStar(x) == Rep(x, 0, Inf, TRUE)
\* a group: capture number g (0: not capturing) over alternatives
Grp(g, alts) == [t |-> "grp", g |-> g, alts |-> alts]
Cap(g, items) == Grp(g, <<items>>)
WordB == [t |-> "wb"]
\* ^ and $ under re.MULTILINE
BOL == [t |-> "bol"]
EOL == [t |-> "eol"]
\* ^ and $ without re.MULTILINE
BOS == [t |-> "bos"]
EOS == [t |-> "eos"]
\* . without and with re.DOTALL
Dot == NoneOf({"\n"})
DotAll == NoneOf({})
WS == OneOf(SpaceChars)

NoMatch == [ok |-> FALSE, end |-> 0, caps |-> <<>>]
NoCaps == <<<<0, 0>>, <<0, 0>>, <<0, 0>>>>

RECURSIVE ToLower(_)
ToLower(s) ==
    IF Len(s) = 0 THEN ""
    ELSE LET c == At(s, 1)
             lc == CASE c = "A" -> "a" [] c = "B" -> "b" [] c = "C" -> "c" [] c = "D" -> "d"
                     [] c = "E" -> "e" [] c = "F" -> "f" [] c = "G" -> "g" [] c = "H" -> "h"
                     [] c = "I" -> "i" [] c = "J" -> "j" [] c = "K" -> "k" [] c = "L" -> "l"
                     [] c = "M" -> "m" [] c = "N" -> "n" [] c = "O" -> "o" [] c = "P" -> "p"
                     [] c = "Q" -> "q" [] c = "R" -> "r" [] c = "S" -> "s" [] c = "T" -> "t"
                     [] c = "U" -> "u" [] c = "V" -> "v" [] c = "W" -> "w" [] c = "X" -> "x"
                     [] c = "Y" -> "y" [] c = "Z" -> "z" [] OTHER -> c
         IN  lc \o ToLower(SubSeq(s, 2, Len(s)))

\* The number of consecutive characters from position i that the class x admits
RunLen(s, i, x) ==
    LET bad == {j \in i..Len(s) : (At(s, j) \in x.cs) = x.neg}
    IN  (IF bad = {} THEN Len(s) + 1 ELSE Least(bad)) - i

IsWordAt(s, i) == i >= 1 /\ i <= Len(s) /\ At(s, i) \in WordChars

RECURSIVE MatchK(_, _, _, _)
RECURSIVE MatchAlts(_, _, _, _, _, _)
\* Match the continuation K (a sequence of items) at position i of s.
MatchK(K, s, i, caps) ==
    IF Len(K) = 0 THEN [ok |-> TRUE, end |-> i, caps |-> caps]
    ELSE
    LET it == Head(K)
        R == Tail(K)
    IN  CASE it.t = "lit" ->
               IF StartsAt(s, i, it.s) THEN MatchK(R, s, i + Len(it.s), caps) ELSE NoMatch
          [] it.t = "litci" ->
               IF i + Len(it.s) - 1 <= Len(s)
                  /\ ToLower(SubSeq(s, i, i + Len(it.s) - 1)) = ToLower(it.s)
               THEN MatchK(R, s, i + Len(it.s), caps) ELSE NoMatch
          [] it.t = "set" ->
               IF i <= Len(s) /\ ((At(s, i) \in it.cs) # it.neg)
               THEN MatchK(R, s, i + 1, caps) ELSE NoMatch
          [] it.t = "wb" ->
               IF IsWordAt(s, i - 1) # IsWordAt(s, i) THEN MatchK(R, s, i, caps) ELSE NoMatch
          [] it.t = "bol" ->
               IF i = 1 \/ At(s, i - 1) = "\n" THEN MatchK(R, s, i, caps) ELSE NoMatch
          [] it.t = "eol" ->
               IF i = Len(s) + 1 \/ At(s, i) = "\n" THEN MatchK(R, s, i, caps) ELSE NoMatch
          [] it.t = "bos" ->
               IF i = 1 THEN MatchK(R, s, i, caps) ELSE NoMatch
          [] it.t = "eos" ->
               IF i = Len(s) + 1 \/ (i = Len(s) /\ At(s, i) = "\n")
               THEN MatchK(R, s, i, caps) ELSE NoMatch
          [] it.t = "open" ->
               MatchK(R, s, i, [caps EXCEPT ![it.g] = <<i, i>>])
          [] it.t = "close" ->
               MatchK(R, s, i, [caps EXCEPT ![it.g] = <<caps[it.g][1], i>>])
          [] it.t = "grp" ->
               MatchAlts(it, 1, R, s, i, caps)
          [] it.t = "rep" /\ it.x.t = "set" ->
               \* a repeated character class: every admissible length is tried on
               \* the rest of the pattern, the longest (lazy: shortest) one wins
               LET run == RunLen(s, i, it.x)
                   top == IF it.hi = Inf THEN run ELSE Min(run, it.hi)
                   fits == {n \in it.lo..top : MatchK(R, s, i + n, caps).ok}
               IN  IF fits = {} THEN NoMatch
                   ELSE MatchK(R, s, i + (IF it.lazy THEN Least(fits) ELSE Greatest(fits)), caps)
          [] it.t = "rep" ->
               LET less == Rep(it.x, Max(it.lo - 1, 0),
                               IF it.hi = Inf THEN Inf ELSE it.hi - 1, it.lazy)
                   more == IF it.hi = 0 THEN NoMatch
                           ELSE MatchK(<<it.x, less>> \o R, s, i, caps)
               IN  IF it.lo > 0 THEN more
                   ELSE IF it.lazy
                        THEN LET skip == MatchK(R, s, i, caps)
                             IN  IF skip.ok THEN skip ELSE more
                        ELSE IF more.ok THEN more ELSE MatchK(R, s, i, caps)

MatchAlts(g, a, R, s, i, caps) ==
    IF a > Len(g.alts) THEN NoMatch
    ELSE LET K == IF g.g = 0 THEN g.alts[a] \o R
                  ELSE <<[t |-> "open", g |-> g.g]>> \o g.alts[a]
                       \o <<[t |-> "close", g |-> g.g]>> \o R
             r == MatchK(K, s, i, caps)
         IN  IF r.ok THEN r ELSE MatchAlts(g, a + 1, R, s, i, caps)

\* The text of capture group g of a match (empty when the group did not take part)
GroupText(s, m, g) == SubSeq(s, m.caps[g][1], m.caps[g][2] - 1)

\* The leftmost of the matches ms[j] tried at the positions j, with its start
Leftmost(ms) ==
    LET hits == {j \in DOMAIN ms : ms[j].ok}
    IN  IF hits = {} THEN [ok |-> FALSE, start |-> 0, end |-> 0, caps |-> <<>>]
        ELSE [ok |-> TRUE, start |-> Least(hits), end |-> ms[Least(hits)].end,
              caps |-> ms[Least(hits)].caps]

\* re.search from position i: the leftmost match, with its start
Search(pat, s, i) == Leftmost([j \in i..(Len(s) + 1) |-> MatchK(pat, s, j, NoCaps)])

\* A replacement template is a sequence of parts: literal text, \g<n>, or
\* \g<0> for the whole match.
T(s) == [g |-> 0, s |-> s]
G(n) == [g |-> n, s |-> ""]
WholeMatch == [g |-> Inf, s |-> ""]

RECURSIVE Expand(_, _, _)
Expand(tmpl, s, m) ==
    IF Len(tmpl) = 0 THEN ""
    ELSE LET p == Head(tmpl)
         IN  (IF p.g = 0 THEN p.s
              ELSE IF p.g = Inf THEN SubSeq(s, m.start, m.end - 1)
              ELSE GroupText(s, m, p.g)) \o Expand(Tail(tmpl), s, m)

RECURSIVE SubFrom(_, _, _, _, _)
RECURSIVE SubMatch(_, _, _, _, _, _)
\* re.sub(pat, tmpl, s, count) from position i; count = Inf replaces every match.
\* Every pattern of the program consumes at least one character.
SubFrom(pat, tmpl, s, i, count) ==
    IF count = 0 THEN SubSeq(s, i, Len(s))
    ELSE SubMatch(pat, tmpl, s, i, count, Search(pat, s, i))

\* The rest of re.sub from position i, m being what the search from i found
SubMatch(pat, tmpl, s, i, count, m) ==
    IF ~m.ok THEN SubSeq(s, i, Len(s))
    ELSE SubSeq(s, i, m.start - 1) \o Expand(tmpl, s, m)
         \o (IF m.end > m.start
             THEN SubFrom(pat, tmpl, s, m.end, IF count = Inf THEN Inf ELSE count - 1)
             ELSE At(s, m.start)
                  \o SubFrom(pat, tmpl, s, m.start + 1,
                             IF count = Inf THEN Inf ELSE count - 1))

ReSub(pat, tmpl, s) == IF Evaluated(s) THEN SubFrom(pat, tmpl, s, 1, Inf) ELSE s

\* The result of a call that may raise: the value, or no value
Returned(v) == [ok |-> TRUE, val |-> v]
Raised == [ok |-> FALSE, val |-> ""]
RaisedIn(f) == [ok |-> FALSE, val |-> "", raised_in |-> f]

RECURSIVE ParseTemplateFrom(_, _, _)
\* re's parsing of a replacement string from position i on, for a pattern with
\* the given number of groups: the template's parts, or re.error.  An escape
\* that denotes a character no string of the model holds (\0 and the other
\* octal escapes, \a, \b, \v) has no case here.
ParseTemplateFrom(repl, i, groups) ==
    LET j == Find(repl, "\\", i)
    IN  IF j = 0 THEN Returned(<<T(SubSeq(repl, i, Len(repl)))>>)
        ELSE IF j = Len(repl) THEN Raised
        ELSE
        LET c == At(repl, j + 1)
            before == T(SubSeq(repl, i, j - 1))
            close == Find(repl, ">", j + 3)
            name == SubSeq(repl, j + 3, close - 1)
            two == j + 2 <= Len(repl) /\ At(repl, j + 2) \in Digits
            index == StrToNat(SubSeq(repl, j + 1, IF two THEN j + 2 ELSE j + 1))
            then(part, k) ==
                LET rest == ParseTemplateFrom(repl, k, groups)
                IN  IF rest.ok THEN Returned(<<before, part>> \o rest.val) ELSE Raised
        IN  CASE c = "\\" -> then(T("\\"), j + 2)
              [] c = "n" -> then(T("\n"), j + 2)
              [] c = "t" -> then(T("\t"), j + 2)
              [] c = "r" -> then(T("\r"), j + 2)
              [] c = "f" -> then(T("\f"), j + 2)
              [] c = "g" ->
                   IF j + 2 > Len(repl) \/ At(repl, j + 2) # "<" \/ close = 0
                      \/ Len(name) = 0 \/ \E k \in 1..Len(name) : At(name, k) \notin Digits
                   THEN Raised
                   ELSE IF StrToNat(name) > groups THEN Raised
                   ELSE then(IF StrToNat(name) = 0 THEN WholeMatch ELSE G(StrToNat(name)), close + 1)
              [] c \in Digits \ {"0"}
                 /\ ~(two /\ j + 3 <= Len(repl) /\ At(repl, j + 3) \in Digits) ->
                   IF index > groups THEN Raised ELSE then(G(index), IF two THEN j + 3 ELSE j + 2)
              [] c \in Letters \ {"a", "b", "v", "n", "t", "r", "f", "g"} -> Raised
              [] c \notin Letters \cup Digits \cup {"\\"} -> then(T("\\" \o c), j + 2)

\* re.sub once the replacement string is parsed: the result, or re.error
SubParsed(pat, tmpl, s, count) ==
    IF tmpl.ok THEN Returned(SubFrom(pat, tmpl.val, s, 1, count)) ELSE Raised

\* re.sub(pat, repl, s, count=count) with a string repl for a pattern with the
\* given number of groups: re parses repl before it looks for a match
ReSubStr(pat, groups, repl, s, count) ==
    IF Evaluated(repl) /\ Evaluated(s)
    THEN SubParsed(pat, ParseTemplateFrom(repl, 1, groups), s, count)
    ELSE Raised

PauseWordThreshold == 10

(***************************************************************************)
(* The LaTeX-to-speech rule table (TextEnhancer.latex_to_speech), in the   *)
(* dict's insertion order, which is the order the rules are applied in.    *)
(***************************************************************************)
LatexToSpeech ==
    <<
       [pat |-> <<WordB, Lit("P("), Cap(1, <<Plus(NoneOf({")"}))>>), Lit(")")>>,
        tmpl |-> <<T("probability of "), G(1)>>],
       [pat |-> <<WordB, Lit("E["), Cap(1, <<Plus(NoneOf({"]"}))>>), Lit("]")>>,
        tmpl |-> <<T("expected value of "), G(1)>>],
       [pat |-> <<WordB, Lit("Var("), Cap(1, <<Plus(NoneOf({")"}))>>), Lit(")")>>,
        tmpl |-> <<T("variance of "), G(1)>>],
       [pat |-> <<WordB, Lit("SD("), Cap(1, <<Plus(NoneOf({")"}))>>), Lit(")")>>,
        tmpl |-> <<T("standard deviation of "), G(1)>>],
       [pat |-> <<WordB, Lit("Cov("), Cap(1, <<Plus(NoneOf({","}))>>), Lit(","), Star(OneOf(SpaceChars)), Cap(2, <<Plus(NoneOf({")"}))>>), Lit(")")>>,
        tmpl |-> <<T("covariance of "), G(1), T(" and "), G(2)>>],
       [pat |-> <<WordB, Lit("Corr("), Cap(1, <<Plus(NoneOf({","}))>>), Lit(","), Star(OneOf(SpaceChars)), Cap(2, <<Plus(NoneOf({")"}))>>), Lit(")")>>,
        tmpl |-> <<T("correlation of "), G(1), T(" and "), G(2)>>],
       [pat |-> <<Lit("\\frac{"), Cap(1, <<Plus(NoneOf({"{", "}"}))>>), Lit("}{"), Cap(2, <<Plus(NoneOf({"{", "}"}))>>), Lit("}")>>,
        tmpl |-> <<G(1), T(" over "), G(2)>>],
       [pat |-> <<Lit("\\sqrt{"), Cap(1, <<Plus(NoneOf({"{", "}"}))>>), Lit("}")>>,
        tmpl |-> <<T("the square root of "), G(1)>>],
       [pat |-> <<Lit("\\sqrt["), Cap(1, <<Plus(NoneOf({"]"}))>>), Lit("]{"), Cap(2, <<Plus(NoneOf({"{", "}"}))>>), Lit("}")>>,
        tmpl |-> <<T("the "), G(1), T("-th root of "), G(2)>>],
       [pat |-> <<Lit("\\sum_{"), Cap(1, <<Plus(NoneOf({"}"}))>>), Lit("}^{"), Cap(2, <<Plus(NoneOf({"}"}))>>), Lit("}")>>,
        tmpl |-> <<T("the sum from "), G(1), T(" to "), G(2), T(" of")>>],
       [pat |-> <<Lit("\\sum")>>,
        tmpl |-> <<T(" the sum of ")>>],
       [pat |-> <<Lit("\\int_{"), Cap(1, <<Plus(NoneOf({"}"}))>>), Lit("}^{"), Cap(2, <<Plus(NoneOf({"}"}))>>), Lit("}")>>,
        tmpl |-> <<T("the integral from "), G(1), T(" to "), G(2), T(" of")>>],
       [pat |-> <<Lit("\\int")>>,
        tmpl |-> <<T(" the integral of ")>>],
       [pat |-> <<Lit("\\oint")>>,
        tmpl |-> <<T(" the contour integral of ")>>],
       [pat |-> <<Lit("\\lim_{"), Cap(1, <<Plus(NoneOf({"}"}))>>), Lit("\\to"), Star(OneOf(SpaceChars)), Cap(2, <<Plus(NoneOf({"}"}))>>), Lit("}")>>,
        tmpl |-> <<T("the limit as "), G(1), T(" approaches "), G(2), T(" of")>>],
       [pat |-> <<Lit("\\lim_{"), Cap(1, <<Plus(NoneOf({"}"}))>>), Lit("}")>>,
        tmpl |-> <<T("the limit as "), G(1), T(" of")>>],
       [pat |-> <<Lit("\\prod_{"), Cap(1, <<Plus(NoneOf({"}"}))>>), Lit("}^{"), Cap(2, <<Plus(NoneOf({"}"}))>>), Lit("}")>>,
        tmpl |-> <<T("the product from "), G(1), T(" to "), G(2), T(" of")>>],
       [pat |-> <<Lit("\\prod")>>,
        tmpl |-> <<T(" the product of ")>>],
       [pat |-> <<Lit("\\frac{d}{d"), Cap(1, <<Plus(NoneOf({"}"}))>>), Lit("}")>>,
        tmpl |-> <<T("the derivative with respect to "), G(1), T(" of")>>],
       [pat |-> <<Lit("\\frac{\\partial}{\\partial"), Star(OneOf(SpaceChars)), Cap(1, <<Plus(NoneOf({"}"}))>>), Lit("}")>>,
        tmpl |-> <<T("the partial derivative with respect to "), G(1), T(" of")>>],
       [pat |-> <<Lit("\\partial^{"), Cap(1, <<Plus(NoneOf({"}"}))>>), Lit("}")>>,
        tmpl |-> <<T("partial to the power of "), G(1)>>],
       [pat |-> <<Lit("\\partial")>>,
        tmpl |-> <<T(" partial ")>>],
       [pat |-> <<Lit("\\nabla^{"), Cap(1, <<Plus(NoneOf({"}"}))>>), Lit("}")>>,
        tmpl |-> <<T("del operator to the power of "), G(1)>>],
       [pat |-> <<Lit("\\nabla")>>,
        tmpl |-> <<T(" del operator ")>>],
       [pat |-> <<Cap(1, <<OneOf(LowerCase \cup UpperCase)>>), Lit("^{"), Cap(2, <<Plus(NoneOf({"}"}))>>), Lit("}")>>,
        tmpl |-> <<G(1), T(" to the power of "), G(2)>>],
       [pat |-> <<Cap(1, <<OneOf(LowerCase \cup UpperCase)>>), Lit("_{"), Cap(2, <<Plus(NoneOf({"}"}))>>), Lit("}")>>,
        tmpl |-> <<G(1), T(" subscript "), G(2)>>],
       [pat |-> <<Lit("^{"), Cap(1, <<Plus(NoneOf({"}"}))>>), Lit("}")>>,
        tmpl |-> <<T(" to the power of "), G(1)>>],
       [pat |-> <<Lit("_{"), Cap(1, <<Plus(NoneOf({"}"}))>>), Lit("}")>>,
        tmpl |-> <<T(" subscript "), G(1)>>],
       [pat |-> <<Lit("\\langle"), Star(OneOf(SpaceChars)), Cap(1, <<Plus(NoneOf({"|"}))>>), Star(OneOf(SpaceChars)), Lit("|"), Star(OneOf(SpaceChars)), Cap(2, <<Plus(NoneOf({"\r", "a", "n", "g", "l", "e"}))>>), Star(OneOf(SpaceChars)), Lit("\\rangle")>>,
        tmpl |-> <<T("the inner product of "), G(1), T(" and "), G(2)>>],
       [pat |-> <<Lit("\\braket{"), Cap(1, <<Plus(NoneOf({"}"}))>>), Lit("}{"), Cap(2, <<Plus(NoneOf({"}"}))>>), Lit("}")>>,
        tmpl |-> <<T("the inner product of "), G(1), T(" and "), G(2)>>],
       [pat |-> <<Lit("|"), Cap(1, <<Plus(NoneOf({"\r", "a", "n", "g", "l", "e", "|"}))>>), Lit("\\rangle")>>,
        tmpl |-> <<T("ket "), G(1)>>],
       [pat |-> <<Lit("\\langle"), Cap(1, <<Plus(NoneOf({"|"}))>>), Lit("|")>>,
        tmpl |-> <<T("bra "), G(1)>>],
       [pat |-> <<Lit("\\bra{"), Cap(1, <<Plus(NoneOf({"}"}))>>), Lit("}")>>,
        tmpl |-> <<T("bra "), G(1)>>],
       [pat |-> <<Lit("\\ket{"), Cap(1, <<Plus(NoneOf({"}"}))>>), Lit("}")>>,
        tmpl |-> <<T("ket "), G(1)>>],
       [pat |-> <<Lit("\\alpha")>>,
        tmpl |-> <<T(" alpha ")>>],
       [pat |-> <<Lit("\\beta")>>,
        tmpl |-> <<T(" beta ")>>],
       [pat |-> <<Lit("\\gamma")>>,
        tmpl |-> <<T(" gamma ")>>],
       [pat |-> <<Lit("\\delta")>>,
        tmpl |-> <<T(" delta ")>>],
       [pat |-> <<Lit("\\epsilon")>>,
        tmpl |-> <<T(" epsilon ")>>],
       [pat |-> <<Lit("\\varepsilon")>>,
        tmpl |-> <<T(" epsilon ")>>],
       [pat |-> <<Lit("\\zeta")>>,
        tmpl |-> <<T(" zeta ")>>],
       [pat |-> <<Lit("\\eta")>>,
        tmpl |-> <<T(" eta ")>>],
       [pat |-> <<Lit("\\theta")>>,
        tmpl |-> <<T(" theta ")>>],
       [pat |-> <<Lit("\\vartheta")>>,
        tmpl |-> <<T(" theta ")>>],
       [pat |-> <<Lit("\\iota")>>,
        tmpl |-> <<T(" iota ")>>],
       [pat |-> <<Lit("\\kappa")>>,
        tmpl |-> <<T(" kappa ")>>],
       [pat |-> <<Lit("\\lambda")>>,
        tmpl |-> <<T(" lambda ")>>],
       [pat |-> <<Lit("\\mu")>>,
        tmpl |-> <<T(" mu ")>>],
       [pat |-> <<Lit("\\nu")>>,
        tmpl |-> <<T(" nu ")>>],
       [pat |-> <<Lit("\\xi")>>,
        tmpl |-> <<T(" xi ")>>],
       [pat |-> <<Lit("\\pi")>>,
        tmpl |-> <<T(" pi ")>>],
       [pat |-> <<Lit("\\varpi")>>,
        tmpl |-> <<T(" pi ")>>],
       [pat |-> <<Lit("\\rho")>>,
        tmpl |-> <<T(" rho ")>>],
       [pat |-> <<Lit("\\varrho")>>,
        tmpl |-> <<T(" rho ")>>],
       [pat |-> <<Lit("\\sigma")>>,
        tmpl |-> <<T(" sigma ")>>],
       [pat |-> <<Lit("\\varsigma")>>,
        tmpl |-> <<T(" sigma ")>>],
       [pat |-> <<Lit("\\tau")>>,
        tmpl |-> <<T(" tau ")>>],
       [pat |-> <<Lit("\\upsilon")>>,
        tmpl |-> <<T(" upsilon ")>>],
       [pat |-> <<Lit("\\phi")>>,
        tmpl |-> <<T(" phi ")>>],
       [pat |-> <<Lit("\\varphi")>>,
        tmpl |-> <<T(" phi ")>>],
       [pat |-> <<Lit("\\chi")>>,
        tmpl |-> <<T(" chi ")>>],
       [pat |-> <<Lit("\\psi")>>,
        tmpl |-> <<T(" psi ")>>],
       [pat |-> <<Lit("\\omega")>>,
        tmpl |-> <<T(" omega ")>>],
       [pat |-> <<Lit("\\Gamma")>>,
        tmpl |-> <<T(" capital gamma ")>>],
       [pat |-> <<Lit("\\Delta")>>,
        tmpl |-> <<T(" capital delta ")>>],
       [pat |-> <<Lit("\\Theta")>>,
        tmpl |-> <<T(" capital theta ")>>],
       [pat |-> <<Lit("\\Lambda")>>,
        tmpl |-> <<T(" capital lambda ")>>],
       [pat |-> <<Lit("\\Xi")>>,
        tmpl |-> <<T(" capital xi ")>>],
       [pat |-> <<Lit("\\Pi")>>,
        tmpl |-> <<T(" capital pi ")>>],
       [pat |-> <<Lit("\\Sigma")>>,
        tmpl |-> <<T(" capital sigma ")>>],
       [pat |-> <<Lit("\\Upsilon")>>,
        tmpl |-> <<T(" capital upsilon ")>>],
       [pat |-> <<Lit("\\Phi")>>,
        tmpl |-> <<T(" capital phi ")>>],
       [pat |-> <<Lit("\\Psi")>>,
        tmpl |-> <<T(" capital psi ")>>],
       [pat |-> <<Lit("\\Omega")>>,
        tmpl |-> <<T(" capital omega ")>>],
       [pat |-> <<Lit("\\cdot")>>,
        tmpl |-> <<T(" times ")>>],
       [pat |-> <<Lit("\\times")>>,
        tmpl |-> <<T(" cross product ")>>],
       [pat |-> <<Lit("\\div")>>,
        tmpl |-> <<T(" divided by ")>>],
       [pat |-> <<Lit("\\pm")>>,
        tmpl |-> <<T(" plus or minus ")>>],
       [pat |-> <<Lit("\\mp")>>,
        tmpl |-> <<T(" minus or plus ")>>],
       [pat |-> <<Lit("\\leq")>>,
        tmpl |-> <<T(" is less than or equal to ")>>],
       [pat |-> <<Lit("\\le"), WordB>>,
        tmpl |-> <<T(" is less than or equal to ")>>],
       [pat |-> <<Lit("\\geq")>>,
        tmpl |-> <<T(" is greater than or equal to ")>>],
       [pat |-> <<Lit("\\ge")>>,
        tmpl |-> <<T(" is greater than or equal to ")>>],
       [pat |-> <<Lit("\\neq")>>,
        tmpl |-> <<T(" is not equal to ")>>],
       [pat |-> <<Lit("\\approx")>>,
        tmpl |-> <<T(" is approximately equal to ")>>],
       [pat |-> <<Lit("\\equiv")>>,
        tmpl |-> <<T(" is equivalent to ")>>],
       [pat |-> <<Lit("\\sim")>>,
        tmpl |-> <<T(" is similar to ")>>],
       [pat |-> <<Lit("\\propto")>>,
        tmpl |-> <<T(" is proportional to ")>>],
       [pat |-> <<Lit("\\in"), WordB>>,
        tmpl |-> <<T(" is an element of ")>>],
       [pat |-> <<Lit("\\notin"), WordB>>,
        tmpl |-> <<T(" is not an element of ")>>],
       [pat |-> <<Lit("\\subset")>>,
        tmpl |-> <<T(" is a subset of ")>>],
       [pat |-> <<Lit("\\subseteq")>>,
        tmpl |-> <<T(" is a subset of or equal to ")>>],
       [pat |-> <<Lit("\\supset")>>,
        tmpl |-> <<T(" is a superset of ")>>],
       [pat |-> <<Lit("\\supseteq")>>,
        tmpl |-> <<T(" is a superset of or equal to ")>>],
       [pat |-> <<Lit("\\cup")>>,
        tmpl |-> <<T(" union ")>>],
       [pat |-> <<Lit("\\cap")>>,
        tmpl |-> <<T(" intersection ")>>],
       [pat |-> <<Lit("\\emptyset")>>,
        tmpl |-> <<T(" the empty set ")>>],
       [pat |-> <<Lit("\\varnothing")>>,
        tmpl |-> <<T(" the empty set ")>>],
       [pat |-> <<Lit("\\forall")>>,
        tmpl |-> <<T(" for all ")>>],
       [pat |-> <<Lit("\\exists")>>,
        tmpl |-> <<T(" there exists ")>>],
       [pat |-> <<Lit("\\nexists")>>,
        tmpl |-> <<T(" there does not exist ")>>],
       [pat |-> <<Lit("\\sin")>>,
        tmpl |-> <<T(" sine of ")>>],
       [pat |-> <<Lit("\\cos")>>,
        tmpl |-> <<T(" cosine of ")>>],
       [pat |-> <<Lit("\\tan")>>,
        tmpl |-> <<T(" tangent of ")>>],
       [pat |-> <<Lit("\\sec")>>,
        tmpl |-> <<T(" secant of ")>>],
       [pat |-> <<Lit("\\csc")>>,
        tmpl |-> <<T(" cosecant of ")>>],
       [pat |-> <<Lit("\\cot")>>,
        tmpl |-> <<T(" cotangent of ")>>],
       [pat |-> <<Lit("\\arcsin")>>,
        tmpl |-> <<T(" arcsine of ")>>],
       [pat |-> <<Lit("\\arccos")>>,
        tmpl |-> <<T(" arccosine of ")>>],
       [pat |-> <<Lit("\\arctan")>>,
        tmpl |-> <<T(" arctangent of ")>>],
       [pat |-> <<Lit("\\sinh")>>,
        tmpl |-> <<T(" hyperbolic sine of ")>>],
       [pat |-> <<Lit("\\cosh")>>,
        tmpl |-> <<T(" hyperbolic cosine of ")>>],
       [pat |-> <<Lit("\\tanh")>>,
        tmpl |-> <<T(" hyperbolic tangent of ")>>],
       [pat |-> <<Lit("\\ln")>>,
        tmpl |-> <<T(" natural log of ")>>],
       [pat |-> <<Lit("\\log")>>,
        tmpl |-> <<T(" log of ")>>],
       [pat |-> <<Lit("\\exp")>>,
        tmpl |-> <<T(" exponential of ")>>],
       [pat |-> <<Lit("\\mathbf{"), Cap(1, <<Plus(NoneOf({"}"}))>>), Lit("}")>>,
        tmpl |-> <<T("bold "), G(1)>>],
       [pat |-> <<Lit("\\vec{"), Cap(1, <<Plus(NoneOf({"}"}))>>), Lit("}")>>,
        tmpl |-> <<T("vector "), G(1)>>],
       [pat |-> <<Lit("\\hat{"), Cap(1, <<Plus(NoneOf({"}"}))>>), Lit("}")>>,
        tmpl |-> <<G(1), T(" hat")>>],
       [pat |-> <<Lit("\\bar{"), Cap(1, <<Plus(NoneOf({"}"}))>>), Lit("}")>>,
        tmpl |-> <<G(1), T(" bar")>>],
       [pat |-> <<Lit("\\tilde{"), Cap(1, <<Plus(NoneOf({"}"}))>>), Lit("}")>>,
        tmpl |-> <<G(1), T(" tilde")>>],
       [pat |-> <<Lit("\\dot{"), Cap(1, <<Plus(NoneOf({"}"}))>>), Lit("}")>>,
        tmpl |-> <<G(1), T(" dot")>>],
       [pat |-> <<Lit("\\ddot{"), Cap(1, <<Plus(NoneOf({"}"}))>>), Lit("}")>>,
        tmpl |-> <<G(1), T(" double dot")>>],
       [pat |-> <<Lit("\\begin{pmatrix}"), Cap(1, <<Plus(NoneOf({"\\"}))>>), Lit("\\end{pmatrix}")>>,
        tmpl |-> <<T("the matrix "), G(1)>>],
       [pat |-> <<Lit("\\begin{bmatrix}"), Cap(1, <<Plus(NoneOf({"\\"}))>>), Lit("\\end{bmatrix}")>>,
        tmpl |-> <<T("the matrix "), G(1)>>],
       [pat |-> <<Lit("\\begin{vmatrix}"), Cap(1, <<Plus(NoneOf({"\\"}))>>), Lit("\\end{vmatrix}")>>,
        tmpl |-> <<T("the determinant of "), G(1)>>],
       [pat |-> <<Lit("\\\\")>>,
        tmpl |-> <<T(" and ")>>],
       [pat |-> <<Lit("&")>>,
        tmpl |-> <<T(" ")>>],
       [pat |-> <<Lit("\\infty")>>,
        tmpl |-> <<T(" infinity ")>>],
       [pat |-> <<Lit("\\ldots")>>,
        tmpl |-> <<T(" dot dot dot ")>>],
       [pat |-> <<Lit("\\cdots")>>,
        tmpl |-> <<T(" dot dot dot ")>>],
       [pat |-> <<Lit("\\vdots")>>,
        tmpl |-> <<T(" vertical dots ")>>],
       [pat |-> <<Lit("\\ddots")>>,
        tmpl |-> <<T(" diagonal dots ")>>],
       [pat |-> <<Lit("\\hbar")>>,
        tmpl |-> <<T(" h-bar ")>>],
       [pat |-> <<Lit("\\ell")>>,
        tmpl |-> <<T(" script l ")>>],
       [pat |-> <<Lit("\\langle")>>,
        tmpl |-> <<T(" left angle bracket ")>>],
       [pat |-> <<Lit("\\rangle")>>,
        tmpl |-> <<T(" right angle bracket ")>>],
       [pat |-> <<Lit("\\lfloor")>>,
        tmpl |-> <<T(" floor of ")>>],
       [pat |-> <<Lit("\\rfloor")>>,
        tmpl |-> <<>>],
       [pat |-> <<Lit("\\lceil")>>,
        tmpl |-> <<T(" ceiling of ")>>],
       [pat |-> <<Lit("\\rceil")>>,
        tmpl |-> <<>>],
       [pat |-> <<Lit("\\left(")>>,
        tmpl |-> <<T(" ")>>],
       [pat |-> <<Lit("\\right)")>>,
        tmpl |-> <<T(" ")>>],
       [pat |-> <<Lit("\\left[")>>,
        tmpl |-> <<T(" open bracket ")>>],
       [pat |-> <<Lit("\\right]")>>,
        tmpl |-> <<T(" close bracket ")>>],
       [pat |-> <<Lit("\\left{")>>,
        tmpl |-> <<T(" open brace ")>>],
       [pat |-> <<Lit("\\right}")>>,
        tmpl |-> <<T(" close brace ")>>],
       [pat |-> <<Lit("||"), Cap(1, <<Plus(NoneOf({"|"}))>>), Lit("||")>>,
        tmpl |-> <<T("the norm of "), G(1)>>],
       [pat |-> <<Lit("|"), Cap(1, <<Plus(NoneOf({"|"}))>>), Lit("|")>>,
        tmpl |-> <<T("the absolute value of "), G(1)>>],
       [pat |-> <<Lit("\\rightarrow")>>,
        tmpl |-> <<T(" implies ")>>],
       [pat |-> <<Lit("\\leftarrow")>>,
        tmpl |-> <<T(" is implied by ")>>],
       [pat |-> <<Lit("\\leftrightarrow")>>,
        tmpl |-> <<T(" if and only if ")>>],
       [pat |-> <<Lit("\\Rightarrow")>>,
        tmpl |-> <<T(" implies ")>>],
       [pat |-> <<Lit("\\Leftarrow")>>,
        tmpl |-> <<T(" is implied by ")>>],
       [pat |-> <<Lit("\\Leftrightarrow")>>,
        tmpl |-> <<T(" if and only if ")>>],
       [pat |-> <<Lit("\\uparrow")>>,
        tmpl |-> <<T(" up arrow ")>>],
       [pat |-> <<Lit("\\downarrow")>>,
        tmpl |-> <<T(" down arrow ")>>],
       [pat |-> <<Lit("\\mapsto")>>,
        tmpl |-> <<T(" maps to ")>>]
    >>

RECURSIVE ApplyRules(_, _, _, _)
\* for pattern, replacement in rules[k..n]: s = re.sub(pattern, replacement, s)
\* (the range is cut into six runs, applied one after the other, so that the
\* evaluation does not nest once per rule)
ApplyRules(rules, s, k, n) ==
    IF k > n \/ ~Evaluated(s) THEN s
    ELSE IF k = n THEN ReSub(rules[k].pat, rules[k].tmpl, s)
    ELSE LET run == (n - k) \div 6 + 1
             s1 == ApplyRules(rules, s, k, Min(n, k + run - 1))
             s2 == ApplyRules(rules, s1, k + run, Min(n, k + 2 * run - 1))
             s3 == ApplyRules(rules, s2, k + 2 * run, Min(n, k + 3 * run - 1))
             s4 == ApplyRules(rules, s3, k + 3 * run, Min(n, k + 4 * run - 1))
             s5 == ApplyRules(rules, s4, k + 4 * run, Min(n, k + 5 * run - 1))
         IN  IF /\ Evaluated(s1)
                /\ Evaluated(s2)
                /\ Evaluated(s3)
                /\ Evaluated(s4)
                /\ Evaluated(s5)
             THEN ApplyRules(rules, s5, k + 5 * run, n)
             ELSE s

\* The substitutions of _handle_complex_latex_structures, in statement order
ComplexStructureRules ==
    <<
       [pat |-> <<Lit("\\frac{"), Cap(1, <<Plus(NoneOf({"{", "}"})), Star(Grp(0, <<<<Lit("{"), Star(NoneOf({"{", "}"})), Lit("}"), Star(NoneOf({"{", "}"}))>>>>))>>), Lit("}{"), Cap(2, <<Plus(NoneOf({"{", "}"})), Star(Grp(0, <<<<Lit("{"), Star(NoneOf({"{", "}"})), Lit("}"), Star(NoneOf({"{", "}"}))>>>>))>>), Lit("}")>>,
        tmpl |-> <<T("the fraction "), G(1), T(" over "), G(2)>>],
       [pat |-> <<Lit("\\begin{pmatrix}"), Cap(1, <<Plus(NoneOf({"\\"}))>>), Lit("\\end{pmatrix}")>>,
        tmpl |-> <<T("the matrix "), G(1)>>],
       [pat |-> <<Lit("\\begin{bmatrix}"), Cap(1, <<Plus(NoneOf({"\\"}))>>), Lit("\\end{bmatrix}")>>,
        tmpl |-> <<T("the matrix "), G(1)>>],
       [pat |-> <<Lit("\\begin{vmatrix}"), Cap(1, <<Plus(NoneOf({"\\"}))>>), Lit("\\end{vmatrix}")>>,
        tmpl |-> <<T("the determinant of "), G(1)>>],
       [pat |-> <<Lit("\\begin{equation}"), Cap(1, <<Plus(NoneOf({"\\"}))>>), Lit("\\end{equation}")>>,
        tmpl |-> <<T("the equation "), G(1)>>],
       [pat |-> <<Lit("\\begin{align}"), Cap(1, <<Plus(NoneOf({"\\"}))>>), Lit("\\end{align}")>>,
        tmpl |-> <<T("the aligned equations "), G(1)>>],
       [pat |-> <<Lit("\\begin{cases}"), Cap(1, <<Plus(NoneOf({"\\"}))>>), Lit("\\end{cases}")>>,
        tmpl |-> <<T("the piecewise function "), G(1)>>],
       [pat |-> <<Lit("\\binom{"), Cap(1, <<Plus(NoneOf({"}"}))>>), Lit("}{"), Cap(2, <<Plus(NoneOf({"}"}))>>), Lit("}")>>,
        tmpl |-> <<G(1), T(" choose "), G(2)>>],
       [pat |-> <<Cap(1, <<OneOf(LowerCase \cup UpperCase)>>), Lit("^{"), Cap(2, <<Plus(NoneOf({"}"}))>>), Lit("}_{"), Cap(3, <<Plus(NoneOf({"}"}))>>), Lit("}")>>,
        tmpl |-> <<G(1), T(" to the power of "), G(2), T(" subscript "), G(3)>>],
       [pat |-> <<Cap(1, <<OneOf(LowerCase \cup UpperCase)>>), Lit("_{"), Cap(2, <<Plus(NoneOf({"}"}))>>), Lit("}^{"), Cap(3, <<Plus(NoneOf({"}"}))>>), Lit("}")>>,
        tmpl |-> <<G(1), T(" subscript "), G(2), T(" to the power of "), G(3)>>],
       [pat |-> <<Lit("^{"), Cap(1, <<Plus(NoneOf({"}"}))>>), Lit("}")>>,
        tmpl |-> <<T(" to the power of "), G(1)>>],
       [pat |-> <<Lit("_{"), Cap(1, <<Plus(NoneOf({"}"}))>>), Lit("}")>>,
        tmpl |-> <<T(" subscript "), G(1)>>],
       [pat |-> <<Lit("^"), Cap(1, <<Plus(OneOf(WordChars))>>)>>,
        tmpl |-> <<T(" to the power of "), G(1)>>],
       [pat |-> <<Lit("_"), Cap(1, <<Plus(OneOf(WordChars))>>)>>,
        tmpl |-> <<T(" subscript "), G(1)>>],
       [pat |-> <<Lit("\\operatorname{"), Cap(1, <<Plus(NoneOf({"}"}))>>), Lit("}")>>,
        tmpl |-> <<G(1)>>],
       [pat |-> <<Lit("\\text{"), Cap(1, <<Plus(NoneOf({"}"}))>>), Lit("}")>>,
        tmpl |-> <<G(1)>>],
       [pat |-> <<Lit("\\mathrm{"), Cap(1, <<Plus(NoneOf({"}"}))>>), Lit("}")>>,
        tmpl |-> <<G(1)>>],
       [pat |-> <<Lit("\\left|"), Cap(1, <<Plus(NoneOf({"\\"}))>>), Lit("\\right|")>>,
        tmpl |-> <<T("the norm of "), G(1)>>],
       [pat |-> <<Lit("|"), Cap(1, <<Plus(NoneOf({"|"}))>>), Lit("|")>>,
        tmpl |-> <<T("the absolute value of "), G(1)>>],
       [pat |-> <<Lit("\\lfloor"), Cap(1, <<Plus(NoneOf({"\\"}))>>), Lit("\\rfloor")>>,
        tmpl |-> <<T("the floor of "), G(1)>>],
       [pat |-> <<Lit("\\lceil"), Cap(1, <<Plus(NoneOf({"\\"}))>>), Lit("\\rceil")>>,
        tmpl |-> <<T("the ceiling of "), G(1)>>],
       [pat |-> <<Lit("\\mathbb{"), Cap(1, <<Plus(NoneOf({"}"}))>>), Lit("}")>>,
        tmpl |-> <<T("the "), G(1), T(" numbers")>>],
       [pat |-> <<Lit("\\mathcal{"), Cap(1, <<Plus(NoneOf({"}"}))>>), Lit("}")>>,
        tmpl |-> <<T("script "), G(1)>>],
       [pat |-> <<Lit("\\\\")>>,
        tmpl |-> <<T(" and ")>>],
       [pat |-> <<Lit("\\quad")>>,
        tmpl |-> <<T(" ")>>],
       [pat |-> <<Lit("\\qquad")>>,
        tmpl |-> <<T(" ")>>],
       [pat |-> <<Lit("\\,")>>,
        tmpl |-> <<T(" ")>>],
       [pat |-> <<Lit("\\;")>>,
        tmpl |-> <<T(" ")>>],
       [pat |-> <<Lit("\\:")>>,
        tmpl |-> <<T(" ")>>],
       [pat |-> <<Lit("\\!")>>,
        tmpl |-> <<>>]
    >>

\* The pause insertions of _handle_complex_latex_structures
PauseRules ==
    <<
       [pat |-> <<Grp(1, <<<<Lit("equal"), Rep(Lit("s"), 0, 1, FALSE)>>, <<Lit("is")>>, <<Lit("are")>>>>), Plus(OneOf(SpaceChars))>>,
        tmpl |-> <<G(1), T(" [PAUSE] ")>>],
       [pat |-> <<Grp(1, <<<<Lit("therefore")>>, <<Lit("thus")>>, <<Lit("hence")>>>>), Plus(OneOf(SpaceChars))>>,
        tmpl |-> <<G(1), T(" [PAUSE] ")>>],
       [pat |-> <<Grp(1, <<<<Lit("where")>>, <<Lit("such that")>>, <<Lit("given that")>>>>), Plus(OneOf(SpaceChars))>>,
        tmpl |-> <<G(1), T(" [PAUSE] ")>>]
    >>

\* re.sub(r'\s+', ' ', s).strip()
CollapseSpaces(s) == Strip(ReSub(<<Plus(OneOf(SpaceChars))>>, <<T(" ")>>, s))

RECURSIVE WordCountFrom(_, _)
RECURSIVE WordsAfter(_, _)
\* len(s.split()): the number of whitespace-separated words from position i
WordCountFrom(s, i) ==
    IF LStripFrom(s, i) > Len(s) THEN 0
    ELSE WordsAfter(s, Search(<<OneOf(SpaceChars)>>, s, LStripFrom(s, i)))

\* The word before the white space m, and the words after it
WordsAfter(s, m) == IF m.ok THEN 1 + WordCountFrom(s, m.start) ELSE 1

WordCount(s) == WordCountFrom(s, 1)

\* if len(latex.split()) > 10: the pause insertions
InsertPauses(s) ==
    IF WordCount(s) > PauseWordThreshold THEN ApplyRules(PauseRules, s, 1, Len(PauseRules))
    ELSE s

HandleComplexLatexStructures(latex) ==
    LET structured == ApplyRules(ComplexStructureRules, latex, 1, Len(ComplexStructureRules))
    IN  IF Evaluated(structured) THEN InsertPauses(CollapseSpaces(structured))
        ELSE structured

\* ApplyLatexTable with no rule applied
LatexTableSkipped(latex) == latex

\* for pattern, replacement in self.latex_to_speech.items(): re.sub(...)
ApplyLatexTable(latex) == ApplyRules(LatexToSpeech, latex, 1, Len(LatexToSpeech))

FallbackLatexToSpeech(latex) ==
    LET spoken == ApplyLatexTable(latex)
    IN  IF Evaluated(spoken) THEN CollapseSpaces(HandleComplexLatexStructures(spoken))
        ELSE spoken


(***************************************************************************)
(* State                                                                   *)
(***************************************************************************)
VARIABLES
    \* the transducer: _fallback_latex_to_speech(latex)
    terms,      \* the notation the snippet was written from
    latex,      \* the LaTeX snippet
    spoken,     \* the local variable spoken
    mpc,        \* position in _fallback_latex_to_speech
    \* the pipeline: process_document, enhance_document, _split_into_chapters
    markdown,           \* the document's text
    config,             \* the TextEnhancer's configuration and what it found at construction
    doc,                \* the DocumentStructure
    stack,              \* the calls of _process_chapter_recursive in progress
    enhanced_content,   \* the locals of enhance_document that its closure updates
    voice_assignments,
    pause_markers,
    chapter_breaks,
    chapter_titles,
    current_position,
    math_log,           \* the math expressions converted so far, with their spoken forms
    ai_call,            \* the call of the rewriting service and what came of it
    exception,          \* the function an exception left enhance_document from
    pc,                 \* position in the pipeline
    result,             \* the EnhancedText enhance_document returned
    chapters,           \* the chapter records _split_into_chapters returned
    \* one function called on its own
    year_str,           \* the argument of _year_to_speech
    year_speech,        \* what _year_to_speech returned
    ypc,                \* position in the call of _year_to_speech
    body_parts,         \* the parts the argument of _enhance_chapter_content was written from
    body_steps,         \* the argument, and its local enhanced_content after each statement
    bpc,                \* position in _enhance_chapter_content
    validation,         \* what validate_enhancement returned: (is_valid, issues)
    vpc,                \* position in the call of validate_enhancement
    \* the command line
    args,               \* the parsed arguments: mode, dry_run
    google_creds,       \* whether find_google_credentials finds credentials
    cpc                 \* position in main

mathVars == <<terms, latex, spoken, mpc>>
docVars == <<markdown, config, doc>>
localVars == <<enhanced_content, voice_assignments, pause_markers, chapter_breaks,
               chapter_titles, current_position>>
engineVars == <<docVars, stack, localVars, math_log, ai_call, exception>>
pipeVars == <<engineVars, pc, result, chapters>>
yearVars == <<year_str, year_speech, ypc>>
bodyVars == <<body_parts, body_steps, bpc>>
validateVars == <<validation, vpc>>
cliVars == <<args, google_creds, cpc>>
toolVars == <<validateVars, cliVars>>
unitVars == <<yearVars, bodyVars, toolVars>>
vars == <<mathVars, pipeVars, unitVars>>

\* EnhancedText(content, voice_assignments, pause_markers, pronunciation_guides,
\*              chapter_breaks, chapter_titles)
EnhancedText(c, va, pm, pg, cb, ct) ==
    [content |-> c, voice_assignments |-> va, pause_markers |-> pm,
     pronunciation_guides |-> pg, chapter_breaks |-> cb, chapter_titles |-> ct]

NoText == EnhancedText("", <<>>, <<>>, <<>>, <<>>, <<>>)

\* No call of the rewriting service
NoCall ==
    [provider |-> "none", content |-> "", raises |-> FALSE, status_code |-> 0,
     has_text |-> FALSE, text |-> ""]

NoConfig ==
    [mode |-> "basic", ollama_enabled |-> FALSE, openai_enabled |-> FALSE,
     pandoc_available |-> FALSE, pronunciation_dict |-> <<>>,
     math_processing |-> TRUE, citation_handling |-> TRUE]

\* enhance_document is not running
EngineIdle ==
    /\ markdown = "" /\ config = NoConfig /\ doc = [chapters |-> <<>>, citations |-> <<>>]
    /\ stack = <<>>
    /\ enhanced_content = <<>> /\ voice_assignments = <<>> /\ pause_markers = <<>>
    /\ chapter_breaks = <<>> /\ chapter_titles = <<>> /\ current_position = 0
    /\ math_log = <<>> /\ ai_call = NoCall /\ exception = ""

\* The pipeline is not running
PipeIdle == EngineIdle /\ pc = "idle" /\ result = NoText /\ chapters = <<>>

\* _year_to_speech is not called on its own
YearIdle == year_str = "" /\ year_speech = "" /\ ypc = "idle"

\* _enhance_chapter_content is not called on its own
BodyIdle == body_parts = <<>> /\ body_steps = <<>> /\ bpc = "idle"

\* No result of validate_enhancement
NoValidation == [is_valid |-> FALSE, issues |-> <<>>]

\* validate_enhancement is not called on its own
ValidateIdle == validation = NoValidation /\ vpc = "idle"

\* No arguments: enhance_document is not run from the command line
NoArgs == [mode |-> "", dry_run |-> FALSE]
CliIdle == args = NoArgs /\ google_creds = FALSE /\ cpc = "idle"

\* Neither validate_enhancement nor main is running
ToolIdle == ValidateIdle /\ CliIdle

\* No function is called on its own
UnitIdle == YearIdle /\ BodyIdle /\ ToolIdle

(***************************************************************************)
(* The transducer run on its own, one statement of                         *)
(* _fallback_latex_to_speech per step.                                     *)
(***************************************************************************)
MaxTerms == 2

\* Labels of kets and bras: a letter of "rangle", another letter, a digit,
\* and Greek commands with and without a letter of "rangle"
Labels == {"a", "n", "0", "\\psi", "\\alpha"}

Ket(l) == [kind |-> "ket", label |-> l]
Bra(l) == [kind |-> "bra", label |-> l]
Raw(l) == [kind |-> "raw", label |-> l]

Kets == {Ket(l) : l \in Labels}
Bras == {Bra(l) : l \in Labels}

\* Other snippets, each taken alone: known commands, an unknown command,
\* an unterminated group, plain text
OtherSnippets == {"\\infty", "\\zzz", "\\frac{a}{b", "x_{a}^{b}", "P(A)", "|x|", "a + b"}

\* Letters with a subscript and a superscript: <<base, subscript, superscript>>
Scripts == {<<"x", "a", "b">>, <<"x", "i", "2">>, <<"A", "ij", "k">>, <<"y", "n+1", "T">>}

\* Commands that have an entry of their own in the table, each with the
\* phrase of its entry: <<command with its arguments, phrase>>
OwnEntries ==
    { <<"\\sin", "sine of">>, <<"\\sinh", "hyperbolic sine of">>,
      <<"\\cosh", "hyperbolic cosine of">>, <<"\\tanh", "hyperbolic tangent of">>,
      <<"\\subset", "is a subset of">>, <<"\\subseteq", "is a subset of or equal to">>,
      <<"\\supseteq", "is a superset of or equal to">>,
      <<"\\nexists", "there does not exist">>,
      <<"\\frac{d}{dx}", "the derivative with respect to x of">>,
      <<"\\frac{\\partial}{\\partial x}", "the partial derivative with respect to x of">> }

\* x_{a}^{b}
ScriptLatex(t) == t[1] \o "_{" \o t[2] \o "}^{" \o t[3] \o "}"

TermLatex(t) ==
    CASE t.kind = "ket" -> "|" \o t.label \o "\\rangle"
      [] t.kind = "bra" -> "\\langle " \o t.label \o "|"
      [] OTHER -> t.label

RECURSIVE SumLatex(_)
\* the terms written as a sum
SumLatex(ts) ==
    IF Len(ts) = 0 THEN ""
    ELSE IF Len(ts) = 1 THEN TermLatex(ts[1])
    ELSE TermLatex(ts[1]) \o " + " \o SumLatex(Tail(ts))

SeqsUpTo(S, n) == UNION {[1..k -> S] : k \in 1..n}

\* Sums of kets, single bras, and the other snippets
MathInputs ==
    SeqsUpTo(Kets, MaxTerms) \cup {<<b>> : b \in Bras} \cup {<<Raw(s)>> : s \in OtherSnippets}
        \cup {<<Raw(ScriptLatex(t))>> : t \in Scripts}
        \cup {<<Raw(c[1])>> : c \in OwnEntries}

\* The transducer is not running on its own
MathIdle == terms = <<>> /\ latex = "" /\ spoken = "" /\ mpc = "idle"

MathInit ==
    /\ terms \in MathInputs
    /\ latex = SumLatex(terms)
    /\ spoken = latex
    /\ mpc = "table"
    /\ PipeIdle
    /\ UnitIdle

\* for pattern, replacement in self.latex_to_speech.items(): spoken = re.sub(...)
ApplyTable ==
    /\ mpc = "table"
    /\ spoken' = ApplyLatexTable(spoken)
    /\ mpc' = "structures"
    /\ UNCHANGED <<terms, latex, pipeVars, unitVars>>

\* spoken = self._handle_complex_latex_structures(spoken)
HandleStructures ==
    /\ mpc = "structures"
    /\ spoken' = HandleComplexLatexStructures(spoken)
    /\ mpc' = "cleanup"
    /\ UNCHANGED <<terms, latex, pipeVars, unitVars>>

\* spoken = re.sub(r'\s+', ' ', spoken).strip(); return spoken
CleanUp ==
    /\ mpc = "cleanup"
    /\ spoken' = CollapseSpaces(spoken)
    /\ mpc' = "done"
    /\ UNCHANGED <<terms, latex, pipeVars, unitVars>>

MathNext == ApplyTable \/ HandleStructures \/ CleanUp

SpecMath == MathInit /\ [][MathNext]_vars


(***************************************************************************)
(* Claims about the transducer                                             *)
(***************************************************************************)
\* How a label is read: a Greek command by its name, anything else as written
Reading(l) == IF StartsAt(l, 1, "\\") THEN SubSeq(l, 2, Len(l)) ELSE l

\* C10: for every ket |L\rangle and bra \langle L|, alone or in a sum of kets,
\* the finished output contains "ket" (resp. "bra") followed by the reading of
\* L and never contains "absolute value".
C10_BraKetBeforeAbsoluteValue ==
    (mpc = "done" /\ \A k \in DOMAIN terms : terms[k].kind \in {"ket", "bra"}) =>
        /\ ~Contains(spoken, "absolute value")
        /\ \A k \in DOMAIN terms :
              Contains(spoken, terms[k].kind \o " " \o Reading(terms[k].label))

\* The same statement for the labels the ket rule's character class admits
\* (none of the letters a, n, g, l, e): it holds.
C10_KetOfAdmittedLabel ==
    (mpc = "done" /\ \A k \in DOMAIN terms :
                        terms[k].kind \in {"ket", "bra"}
                        /\ (terms[k].kind = "ket" => terms[k].label \in {"0", "\\psi"})) =>
        /\ ~Contains(spoken, "absolute value")
        /\ \A k \in DOMAIN terms :
              Contains(spoken, terms[k].kind \o " " \o Reading(terms[k].label))

(***************************************************************************)
(* The chapter segmenter: AudiobookGenerator._split_into_chapters          *)
(***************************************************************************)
\* lines[0] of s.split('\n')
FirstLine(s) ==
    LET j == Find(s, "\n", 1)
    IN  IF j = 0 THEN s ELSE SubSeq(s, 1, j - 1)

\* f'Chapter {i + 1}' for the 0-based index i
ChapterLabel(i) == "Chapter " \o IntToStr(i + 1)

\* The title taken from the chapter's text when chapter_titles has no entry
\* for the chapter with 1-based number n
LegacyTitle(chapter_content, n) ==
    LET raw_title == FirstLine(chapter_content)
        title == ReSub(<<BOS, Plus(Lit("#")), Star(OneOf(SpaceChars))>>, <<>>,
                       Strip(StrReplace(raw_title, "Chapter: ", "")))
    IN  IF Len(title) = 0 \/ Len(Strip(title)) < 3 THEN ChapterLabel(n - 1) ELSE title

RECURSIVE FilterVoices(_, _, _, _)
\* The loop that filters voice_assignments for the chapter [start_pos, end_pos),
\* from entry k on, adding to the chapter's dict acc
FilterVoices(va, k, range, acc) ==
    IF k > Len(va) THEN acc
    ELSE LET range_start == RangeStart(va[k].key)
             range_end == RangeEnd(va[k].key)
         IN  FilterVoices(va, k + 1, range,
                 IF range.start_pos <= range_start /\ range_start < range.end_pos
                 THEN DictSet(acc, RangeKey(range_start - range.start_pos,
                                            range_end - range.start_pos), va[k].value)
                 ELSE acc)

\* ChapterRange with every chapter running to the end of the buffer
ChapterRangeToBufferEnd(et, n) ==
    [start_pos |-> et.chapter_breaks[n], end_pos |-> Len(et.content)]

\* start_pos and end_pos of the chapter with 1-based number n
ChapterRange(et, n) ==
    [start_pos |-> et.chapter_breaks[n],
     end_pos |-> IF n < Len(et.chapter_breaks) THEN et.chapter_breaks[n + 1]
                 ELSE Len(et.content)]

\* ChapterRecord with the text of the last chapter ending one character early
ChapterRecordShortLastChapter(et, n) ==
    LET range == ChapterRange(et, n)
        last == IF n < Len(et.chapter_breaks) THEN range.end_pos ELSE range.end_pos - 1
    IN  [title |-> IF n <= Len(et.chapter_titles) THEN et.chapter_titles[n]
                   ELSE LegacyTitle(Strip(PySlice(et.content, range.start_pos, last)), n),
         content |-> Strip(PySlice(et.content, range.start_pos, last)),
         voice_assignments |-> FilterVoices(et.voice_assignments, 1, range, <<>>)]

\* ChapterRecord keeping only the spans that end inside the chapter
ChapterRecordDroppingStraddlers(et, n) ==
    LET range == ChapterRange(et, n)
        chapter_content == Strip(PySlice(et.content, range.start_pos, range.end_pos))
    IN  [title |-> IF n <= Len(et.chapter_titles) THEN et.chapter_titles[n]
                   ELSE LegacyTitle(chapter_content, n),
         content |-> chapter_content,
         voice_assignments |->
             SelectSeq(FilterVoices(et.voice_assignments, 1, range, <<>>),
                       LAMBDA a : RangeEnd(a.key) <= range.end_pos - range.start_pos)]

\* The record appended for the chapter with 1-based number n
ChapterRecord(et, n) ==
    LET range == ChapterRange(et, n)
        chapter_content == Strip(PySlice(et.content, range.start_pos, range.end_pos))
    IN  [title |-> IF n <= Len(et.chapter_titles) THEN et.chapter_titles[n]
                   ELSE LegacyTitle(chapter_content, n),
         content |-> chapter_content,
         voice_assignments |-> FilterVoices(et.voice_assignments, 1, range, <<>>)]

\* SplitChapters treating the buffer without breaks as a chapter that starts at 0
SplitChaptersBreakAtZero(et) ==
    IF Len(et.chapter_breaks) = 0
    THEN <<ChapterRecord([et EXCEPT !.chapter_breaks = <<0>>, !.chapter_titles = <<"Chapter 1">>], 1)>>
    ELSE [n \in 1..Len(et.chapter_breaks) |-> ChapterRecord(et, n)]

\* _split_into_chapters(enhanced_text)
SplitChapters(et) ==
    IF Len(et.chapter_breaks) = 0
    THEN <<[title |-> "Chapter 1", content |-> et.content,
            voice_assignments |-> et.voice_assignments]>>
    ELSE [n \in 1..Len(et.chapter_breaks) |-> ChapterRecord(et, n)]

\* chapter_texts = self._split_into_chapters(enhanced_text)
SplitIntoChapters ==
    /\ pc = "returned"
    /\ chapters' = SplitChapters(result)
    /\ pc' = "split"
    /\ UNCHANGED <<result, engineVars, mathVars, unitVars>>

(***************************************************************************)
(* The segmenter run on its own, on every EnhancedText within the bounds.  *)
(***************************************************************************)
MaxBuf == 3
MaxSpans == 1

BufferChars == {"a", "\n"}

RECURSIVE StringsOfLen(_, _)
StringsOfLen(S, n) ==
    IF n = 0 THEN {""} ELSE {c \o s : c \in S, s \in StringsOfLen(S, n - 1)}

\* Buffers of the full length, and the empty buffer a rewrite can leave behind
Buffers == StringsOfLen(BufferChars, MaxBuf) \cup {""}

\* Strictly ascending lists of offsets, as enhance_document builds them
BreakLists == {Ascending(S) : S \in SUBSET (0..MaxBuf)}

\* The roles of the spans of a dict, in its order
VoiceRoles == <<"chapter_voice", "section_voice", "subsection_voice">>

SpanRanges == {r \in (0..MaxBuf) \X (0..MaxBuf) : r[1] <= r[2]}

\* The dict of the spans in R, inserted in ascending order from the k-th on
RECURSIVE SpanDict(_, _)
SpanDict(R, k) ==
    IF R = {} THEN <<>>
    ELSE LET r == CHOOSE x \in R : \A y \in R : x[1] < y[1] \/ (x[1] = y[1] /\ x[2] <= y[2])
         IN  <<[key |-> RangeKey(r[1], r[2]), value |-> VoiceRoles[((k - 1) % Len(VoiceRoles)) + 1]]>>
             \o SpanDict(R \ {r}, k + 1)

SpanDicts == {SpanDict(R, 1) : R \in {Q \in SUBSET SpanRanges : Cardinality(Q) <= MaxSpans}}

\* One title per break, as enhance_document records them
TitlesFor(breaks) == [n \in 1..Len(breaks) |-> "T" \o IntToStr(n)]

SplitInputs ==
    {EnhancedText(c, va, <<>>, <<>>, cb, TitlesFor(cb)) :
        c \in Buffers, va \in SpanDicts, cb \in BreakLists}

SplitInit ==
    /\ pc = "returned"
    /\ result \in SplitInputs
    /\ chapters = <<>>
    /\ EngineIdle
    /\ MathIdle
    /\ UnitIdle

SplitNext == SplitIntoChapters

SpecSplit == SplitInit /\ [][SplitNext]_vars


(***************************************************************************)
(* Properties of the segmenter                                             *)
(***************************************************************************)
\* The segmenter has run on an EnhancedText with at least one break
Segmented == pc = "split" /\ Len(result.chapter_breaks) > 0

\* The offset at which chapter n ends: the next break, the buffer's end for the last
BoundaryAfter(n) ==
    IF n < Len(result.chapter_breaks) THEN result.chapter_breaks[n + 1] ELSE Len(result.content)

\* The input voice spans (indices into the input dict) that start inside chapter n
SpansStartingIn(n) ==
    {k \in DOMAIN result.voice_assignments :
        /\ result.chapter_breaks[n] <= RangeStart(result.voice_assignments[k].key)
        /\ RangeStart(result.voice_assignments[k].key) < BoundaryAfter(n)}

\* Input span k as chapter n's record should hold it
Rekeyed(k, n) ==
    [key |-> RangeKey(RangeStart(result.voice_assignments[k].key) - result.chapter_breaks[n],
                      RangeEnd(result.voice_assignments[k].key) - result.chapter_breaks[n]),
     value |-> result.voice_assignments[k].value]

\* Input span k starts in chapter n and ends beyond the chapter's end
Straddles(k, n) ==
    /\ n < Len(result.chapter_breaks)
    /\ k \in SpansStartingIn(n)
    /\ RangeEnd(result.voice_assignments[k].key) > result.chapter_breaks[n + 1]

\* C3: every voice span that starts in [breaks[i], breaks[i+1]) (buffer end for
\* the last chapter) is in chapter i's record, re-keyed by subtracting breaks[i]
\* with its role unchanged, and a chapter's record holds nothing else, so the
\* span is in no other chapter's record.
C3_SpansRekeyedIntoTheirChapter ==
    Segmented =>
        \A n \in DOMAIN chapters :
            /\ \A k \in SpansStartingIn(n) :
                  \E j \in DOMAIN chapters[n].voice_assignments :
                      chapters[n].voice_assignments[j] = Rekeyed(k, n)
            /\ Len(chapters[n].voice_assignments) = Cardinality(SpansStartingIn(n))

\* A span that starts in the second of three chapters, after its break, has been
\* re-keyed into the second record and the other two records are empty
C3_Witness ==
    /\ Segmented
    /\ Len(chapters) = 3
    /\ \E k \in SpansStartingIn(2) :
          /\ RangeStart(result.voice_assignments[k].key) > result.chapter_breaks[2]
          /\ chapters[2].voice_assignments = <<Rekeyed(k, 2)>>
    /\ chapters[1].voice_assignments = <<>>
    /\ chapters[3].voice_assignments = <<>>

\* C4 as claimed: one record per break, and the text of chapter i is exactly
\* the buffer slice [breaks[i], breaks[i+1]).
C4_ChapterTextIsExactlyTheSlice ==
    Segmented =>
        /\ Len(chapters) = Len(result.chapter_breaks)
        /\ \A n \in DOMAIN chapters :
              chapters[n].content = PySlice(result.content, result.chapter_breaks[n], BoundaryAfter(n))

\* text is what is left of slice when the white space at its two ends is removed
IsSliceWithoutEdgeSpace(text, slice) ==
    \E a \in 0..Len(slice) :
        /\ a + Len(text) <= Len(slice)
        /\ SubSeq(slice, a + 1, a + Len(text)) = text
        /\ \A j \in 1..a : At(slice, j) \in SpaceChars
        /\ \A j \in (a + Len(text) + 1)..Len(slice) : At(slice, j) \in SpaceChars
        /\ Len(text) > 0 => At(text, 1) \notin SpaceChars /\ At(text, Len(text)) \notin SpaceChars

\* C4, amended: one record per break, and the text of chapter i is the buffer
\* slice [breaks[i], breaks[i+1]) (to the buffer's end for the last chapter)
\* with the white space at its two ends removed.
C4_ChapterTextIsTheSliceStripped ==
    Segmented =>
        /\ Len(chapters) = Len(result.chapter_breaks)
        /\ \A n \in DOMAIN chapters :
              IsSliceWithoutEdgeSpace(chapters[n].content,
                  PySlice(result.content, result.chapter_breaks[n], BoundaryAfter(n)))

\* Two chapters, the first one's slice with white space at an end and text inside
C4_Witness ==
    /\ Segmented
    /\ Len(chapters) = 2
    /\ Len(chapters[1].content) > 0
    /\ Len(chapters[1].content) < result.chapter_breaks[2] - result.chapter_breaks[1]
    /\ result.chapter_breaks[2] <= Len(result.content)

\* C5 as claimed: a voice span that starts in chapter i and ends beyond
\* breaks[i+1] is in no chapter's record.
C5_StraddlingSpanDropped ==
    Segmented =>
        \A n \in DOMAIN chapters : \A k \in DOMAIN result.voice_assignments :
            Straddles(k, n) =>
                \A c \in DOMAIN chapters : \A j \in DOMAIN chapters[c].voice_assignments :
                    chapters[c].voice_assignments[j] # Rekeyed(k, c)

\* C5, amended: a voice span that starts in chapter i and ends beyond
\* breaks[i+1] is kept in chapter i's record, re-keyed by subtracting breaks[i]
\* like any other span, so that its end lies beyond the chapter's length.
C5_StraddlingSpanKept ==
    Segmented =>
        \A n \in DOMAIN chapters : \A k \in DOMAIN result.voice_assignments :
            Straddles(k, n) =>
                \E j \in DOMAIN chapters[n].voice_assignments :
                    /\ chapters[n].voice_assignments[j] = Rekeyed(k, n)
                    /\ RangeEnd(chapters[n].voice_assignments[j].key)
                          > result.chapter_breaks[n + 1] - result.chapter_breaks[n]

\* The segmenter has run on a span that straddles the end of the first chapter
C5_Witness ==
    /\ Segmented
    /\ \E k \in DOMAIN result.voice_assignments : Straddles(k, 1)

\* C9: with an empty break list the segmenter returns one record: its text the
\* whole buffer, its title the fallback label 'Chapter 1', its voice spans the
\* input's, unchanged.
C9_EmptyBreakListGivesOneChapter ==
    (pc = "split" /\ Len(result.chapter_breaks) = 0) =>
        /\ Len(chapters) = 1
        /\ chapters[1].content = result.content
        /\ chapters[1].title = "Chapter 1"
        /\ chapters[1].voice_assignments = result.voice_assignments

\* The segmenter has run without breaks on a buffer with white space at its
\* ends and a voice span
C9_Witness ==
    /\ pc = "split"
    /\ Len(result.chapter_breaks) = 0
    /\ Len(result.content) > 0
    /\ Strip(result.content) # result.content
    /\ Len(result.voice_assignments) > 0
    /\ Len(chapters) = 1

(***************************************************************************)
(* The document parser: MarkdownProcessor._extract_chapters and            *)
(* _extract_citations.  A Chapter is a record of a sequence of nodes; its  *)
(* field parent is the place of the Chapter whose subsections list holds   *)
(* it (0: the document's chapters list).  Both lists are appended to in    *)
(* the order of the nodes, so a list is its members in ascending order.    *)
(***************************************************************************)
RECURSIVE SplitLines(_)
\* s.split('\n')
SplitLines(s) ==
    LET j == Find(s, "\n", 1)
    IN  IF j = 0 THEN <<s>> ELSE <<SubSeq(s, 1, j - 1)>> \o SplitLines(SubSeq(s, j + 1, Len(s)))

RECURSIVE JoinWith(_, _)
\* sep.join(parts)
JoinWith(parts, sep) ==
    IF Len(parts) = 0 THEN ""
    ELSE IF Len(parts) = 1 THEN parts[1]
    ELSE parts[1] \o sep \o JoinWith(Tail(parts), sep)

\* re.match(r'^(#{1,6})\s+(.+)$', line)
HeaderMatch(line) ==
    MatchK(<<BOS, Cap(1, <<Rep(Lit("#"), 1, 6, FALSE)>>), Plus(WS), Cap(2, <<Plus(Dot)>>), EOS>>,
           line, 1, NoCaps)

\* re.match(r'^(#{1,6})\s+', lines[j])
NextHeaderMatch(line) ==
    MatchK(<<BOS, Cap(1, <<Rep(Lit("#"), 1, 6, FALSE)>>), Plus(WS)>>, line, 1, NoCaps)

\* chapter_levels of the default configuration
ChapterLevels == {1, 2, 3, 4, 5, 6}

\* The lines after line i up to the next header of any level
ContentLines(lines, i) ==
    SubSeq(lines, i + 1,
           Least({j \in (i + 1)..(Len(lines) + 1) :
                     j = Len(lines) + 1 \/ NextHeaderMatch(lines[j]).ok}) - 1)

Chapter(level, title, content, parent) ==
    [level |-> level, title |-> title, content |-> content, parent |-> parent]

\* The Chapter that takes the new one into its subsections: the one recorded
\* for the nearest level below, 0 when none is recorded
ParentOf(level, current_chapters) ==
    LET below == {l \in ChapterLevels : l < level /\ current_chapters[l] # 0}
    IN  IF level = Least(ChapterLevels) \/ below = {} THEN 0
        ELSE current_chapters[Greatest(below)]

RECURSIVE ExtractFrom(_, _, _, _)
RECURSIVE ExtractLine(_, _, _, _, _)
\* The loop over the lines from line i on; current_chapters maps a level to
\* the place of the last Chapter of that level (0: none yet)
ExtractFrom(lines, i, nodes, current_chapters) ==
    IF i > Len(lines) THEN nodes
    ELSE ExtractLine(lines, i, nodes, current_chapters, HeaderMatch(lines[i]))

\* The body of the loop for line i, header_match being what re.match made of it
ExtractLine(lines, i, nodes, current_chapters, header_match) ==
    LET level == Len(GroupText(lines[i], header_match, 1))
        title == Strip(GroupText(lines[i], header_match, 2))
    IN  IF header_match.ok /\ level \in ChapterLevels
        THEN ExtractFrom(lines, i + 1,
                 Append(nodes, Chapter(level, title,
                                       Strip(JoinWith(ContentLines(lines, i), "\n")),
                                       ParentOf(level, current_chapters))),
                 [current_chapters EXCEPT ![level] = Len(nodes) + 1])
        ELSE ExtractFrom(lines, i + 1, nodes, current_chapters)

\* _extract_chapters(content)
ExtractChapters(content) ==
    ExtractFrom(SplitLines(content), 1, <<>>, [l \in ChapterLevels |-> 0])

\* Subsections with the members of a list newest first
SubsectionsNewestFirst(nodes, p) ==
    LET members == Ascending({n \in DOMAIN nodes : nodes[n].parent = p})
    IN  [k \in DOMAIN members |-> members[Len(members) + 1 - k]]

\* A Chapter whose subsections the caller has set: the places of its members
LinkedChapter(level, title, content, parent, subsections) ==
    [level |-> level, title |-> title, content |-> content, parent |-> parent,
     subsections |-> subsections]

\* The members of the list that Chapter p holds (p = 0: doc_structure.chapters).
\* _extract_chapters appends a Chapter to the subsections of its parent; a
\* Chapter that a caller has linked holds the list the caller gave it
Subsections(nodes, p) ==
    IF p \in DOMAIN nodes /\ "subsections" \in DOMAIN nodes[p] THEN nodes[p].subsections
    ELSE Ascending({n \in DOMAIN nodes : nodes[n].parent = p})

RECURSIVE FindAll(_, _, _)
RECURSIVE MatchesFrom(_, _, _)
\* re.finditer(pat, s): the matches from position i on, left to right
FindAll(pat, s, i) == IF Evaluated(s) THEN MatchesFrom(pat, s, Search(pat, s, i)) ELSE <<>>

\* The match m and the matches after it
MatchesFrom(pat, s, m) ==
    IF ~m.ok THEN <<>>
    ELSE <<m>> \o FindAll(pat, s, IF m.end > m.start THEN m.end ELSE m.end + 1)

\* A match's whole text, m.group(0)
MatchText(s, m) == SubSeq(s, m.start, m.end - 1)

\* The three citation_patterns: (Author, Year), [Author Year], (Author Year)
CitationPatterns ==
    <<
       <<Lit("("), Cap(1, <<Plus(OneOf(UpperCase \cup LowerCase \cup SpaceChars))>>), Lit(","),
         Star(WS), Cap(2, <<Rep(OneOf(Digits), 4, 4, FALSE)>>), Lit(")")>>,
       <<Lit("["), Cap(1, <<Plus(OneOf(UpperCase \cup LowerCase \cup SpaceChars))>>),
         Plus(WS), Cap(2, <<Rep(OneOf(Digits), 4, 4, FALSE)>>), Lit("]")>>,
       <<Lit("("), Cap(1, <<Plus(OneOf(UpperCase \cup LowerCase \cup SpaceChars))>>),
         Plus(WS), Cap(2, <<Rep(OneOf(Digits), 4, 4, FALSE)>>), Lit(")")>>
    >>

Citation(original, author, year) == [original |-> original, author |-> author, year |-> year]

\* The Citations appended for the matches ms of one pattern
CitationsOf(content, ms) ==
    [k \in DOMAIN ms |-> Citation(MatchText(content, ms[k]),
                                  Strip(GroupText(content, ms[k], 1)),
                                  Strip(GroupText(content, ms[k], 2)))]

RECURSIVE CitationsFrom(_, _)
\* for pattern in self.citation_patterns, from pattern k on
CitationsFrom(content, k) ==
    IF k > Len(CitationPatterns) THEN <<>>
    ELSE CitationsOf(content, FindAll(CitationPatterns[k], content, 1))
             \o CitationsFrom(content, k + 1)

\* _extract_citations(content)
ExtractCitations(content) == CitationsFrom(content, 1)

\* process_document, as far as enhance_document reads its result
DocumentStructure(content) ==
    [chapters |-> ExtractChapters(content), citations |-> ExtractCitations(content)]

\* math_block_pattern, re.compile(r'\$\$(.*?)\$\$', re.DOTALL)
MathBlockPattern == <<Lit("$$"), Cap(1, <<LazyStar(DotAll)>>), Lit("$$")>>

\* math_inline_pattern, re.compile(r'\$(.*?)\$')
MathInlinePattern == <<Lit("$"), Cap(1, <<LazyStar(Dot)>>), Lit("$")>>

MathExpression(l, is_block) == [latex |-> l, is_block |-> is_block]

\* The MathExpressions appended for the matches ms of one pattern
MathExpressionsOf(content, ms, is_block) ==
    [k \in DOMAIN ms |-> MathExpression(Strip(GroupText(content, ms[k], 1)), is_block)]

\* The inline expressions of the content without its blocks
InlineMathExpressions(content_no_blocks) ==
    MathExpressionsOf(content_no_blocks, FindAll(MathInlinePattern, content_no_blocks, 1), FALSE)

\* _extract_math_expressions(content): the blocks, then the inline expressions
ExtractMathExpressions(content) ==
    MathExpressionsOf(content, FindAll(MathBlockPattern, content, 1), TRUE)
        \o InlineMathExpressions(ReSub(MathBlockPattern, <<>>, content))

(***************************************************************************)
(* The body pipeline: TextEnhancer._enhance_chapter_content                *)
(***************************************************************************)
\* The rules of _wrap_math_in_text.  Its last two rules match the characters
\* for set intersection and union, which no string of the model holds.
WrapRules ==
    <<
       [pat |-> <<WordB, Cap(1, <<OneOf(UpperCase \cup LowerCase)>>), Lit("("), Cap(2, <<Plus(NoneOf({")"}))>>), Lit(")")>>,
        tmpl |-> <<T("$"), G(1), T("("), G(2), T(")$")>>],
       [pat |-> <<WordB, Lit("E["), Cap(1, <<Plus(NoneOf({"]"}))>>), Lit("]")>>,
        tmpl |-> <<T("$E["), G(1), T("]$")>>],
       [pat |-> <<WordB, Lit("Var("), Cap(1, <<Plus(NoneOf({")"}))>>), Lit(")")>>,
        tmpl |-> <<T("$\\text{Var}("), G(1), T(")$")>>],
       [pat |-> <<WordB, Lit("SD("), Cap(1, <<Plus(NoneOf({")"}))>>), Lit(")")>>,
        tmpl |-> <<T("$\\text{SD}("), G(1), T(")$")>>]
    >>

\* _wrap_math_in_text(text)
WrapMathInText(text) ==
    IF Contains(text, "$") THEN text ELSE ApplyRules(WrapRules, text, 1, Len(WrapRules))

\* latex_pattern, re.compile(r'(\$\$.*?\$\$|\$.*?\$)', re.DOTALL)
LatexPattern ==
    <<Grp(1, <<<<Lit("$$"), LazyStar(DotAll), Lit("$$")>>, <<Lit("$"), LazyStar(DotAll), Lit("$")>>>>)>>

RECURSIVE WrapParts(_, _, _, _)
\* The parts of content from match k of ms on, last_end being the position
\* after the previous match: text parts wrapped, LaTeX parts as they are
WrapParts(content, ms, k, last_end) ==
    IF k > Len(ms) THEN WrapMathInText(SubSeq(content, last_end, Len(content)))
    ELSE WrapMathInText(SubSeq(content, last_end, ms[k].start - 1))
         \o MatchText(content, ms[k]) \o WrapParts(content, ms, k + 1, ms[k].end)

\* AutoWrapMathematicalExpressions taking the whole content for text
AutoWrapWholeContent(content) == ApplyRules(WrapRules, content, 1, Len(WrapRules))

\* _auto_wrap_mathematical_expressions(content)
AutoWrapMathematicalExpressions(content) ==
    WrapParts(content, FindAll(LatexPattern, content, 1), 1, 1)

\* _convert_latex_ast_to_speech(latex)
ConvertLatexAstToSpeech(l) ==
    LET speech == ApplyRules(LatexToSpeech, l, 1, Len(LatexToSpeech))
    IN  IF Evaluated(speech) THEN CollapseSpaces(HandleComplexLatexStructures(speech))
        ELSE speech

\* JSON values as json.loads returns them: a str, a list, or a dict; of a dict,
\* the value of its key 't' ("": no such key), the value of its key 'c'
\* (as a sequence of one value; <<>>: no such key) and its other keys
JStr(s) == [k |-> "str", s |-> s, items |-> <<>>, t |-> "", c |-> <<>>, keys |-> {}]
JList(items) == [k |-> "list", s |-> "", items |-> items, t |-> "", c |-> <<>>, keys |-> {}]
JDict(t, c, keys) == [k |-> "dict", s |-> "", items |-> <<>>, t |-> t, c |-> c, keys |-> keys]

\* What process_element returns: a string, or None
Some(s) == [none |-> FALSE, s |-> s]
None == [none |-> TRUE, s |-> ""]

\* ' '.join(results) if results else None, results being the truthy ones of rs
JoinResults(rs) ==
    LET results == SelectSeq(rs, LAMBDA r : ~r.none /\ r.s # "")
    IN  IF Len(results) = 0 THEN None
        ELSE Some(JoinWith([n \in DOMAIN results |-> results[n].s], " "))

\* A dict with 't' == 'Math' whose 'c' is [{'t': ...}, latex]: any other
\* makes element['c'][0]['t'] or the conversion of element['c'][1] raise
IsMathElement(element) ==
    /\ element.k = "dict" /\ element.t = "Math"
    /\ Len(element.c) = 1 /\ element.c[1].k = "list" /\ Len(element.c[1].items) >= 2
    /\ element.c[1].items[1].k = "dict" /\ element.c[1].items[1].t # ""
    /\ element.c[1].items[2].k = "str"

RECURSIVE ProcessElement(_)
\* process_element(element) of _extract_math_from_ast, for an AST whose Math
\* elements are well formed
ProcessElement(element) ==
    CASE element.k = "dict" /\ element.t = "Math" /\ IsMathElement(element) ->
           Some(ConvertLatexAstToSpeech(element.c[1].items[2].s))
      [] element.k = "dict" /\ element.t # "Math" /\ Len(element.c) = 1 ->
           IF element.c[1].k = "list"
           THEN JoinResults([n \in DOMAIN element.c[1].items |->
                                ProcessElement(element.c[1].items[n])])
           ELSE ProcessElement(element.c[1])
      [] element.k = "dict" /\ element.t # "Math" /\ Len(element.c) = 0 -> None
      [] element.k = "list" ->
           JoinResults([n \in DOMAIN element.items |-> ProcessElement(element.items[n])])
      [] element.k = "str" -> Some(element.s)

\* _extract_math_from_ast(ast): process_element(ast) or ""
ExtractMathFromAst(ast) == ProcessElement(ast).s

\* What the call of pandoc can come to: it fails (no zero exit, no JSON), or
\* it prints the AST in the format of pandoc from 1.18 on (a dict with the
\* keys pandoc-api-version, meta and blocks) or in the older one (a list of
\* the metadata and the blocks)
PandocOutcomes == {"fails", "ast_dict", "ast_list"}

\* The Math element pandoc makes of "$latex$", and of "$$\nlatex\n$$"
MathElement(l, is_block) ==
    JDict("Math", <<JList(<<JDict(IF is_block THEN "DisplayMath" ELSE "InlineMath",
                                  <<JList(<<>>)>>, {}),
                            JStr(IF is_block THEN "\n" \o l \o "\n" ELSE l)>>)>>, {})

\* The list the AST of pandoc from 1.18 on holds under its key 'blocks'
PandocBlocks(l, is_block) ==
    JList(<<JDict("Para", <<JList(<<MathElement(l, is_block)>>)>>, {})>>)

PandocAst(outcome, l, is_block) ==
    IF outcome = "ast_dict"
    THEN JDict("", <<>>, {"pandoc-api-version", "meta", "blocks"})
    ELSE JList(<<JDict("", <<>>, {"unMeta"}),
                 JList(<<JDict("Para", <<JList(<<MathElement(l, is_block)>>)>>, {})>>)>>)

\* SpokenOrFallback keeping an empty spoken text
SpokenOrFallbackKeepingEmpty(spoken_text, l) == spoken_text

\* spoken_text if spoken_text else self._fallback_latex_to_speech(latex)
SpokenOrFallback(spoken_text, l) ==
    IF spoken_text # "" THEN spoken_text ELSE FallbackLatexToSpeech(l)

\* _pandoc_latex_to_speech(latex, is_block) when the call of pandoc comes to outcome
PandocLatexToSpeech(l, is_block, outcome) ==
    IF outcome = "fails" THEN FallbackLatexToSpeech(l)
    ELSE SpokenOrFallback(ExtractMathFromAst(PandocAst(outcome, l, is_block)), l)

\* rf"\$\$\s*{re.escape(latex)}\s*\$\$" and rf"\$\s*{re.escape(latex)}\s*\$"
MathPattern(math_expr) ==
    LET d == IF math_expr.is_block THEN "$$" ELSE "$"
    IN  <<Lit(d), Star(WS), Lit(math_expr.latex), Star(WS), Lit(d)>>

\* f"[MATH_BLOCK] {spoken_math} [/MATH_BLOCK]" and f"[MATH] {spoken_math} [/MATH]"
MathReplacement(spoken_math, is_block) ==
    IF is_block THEN "[MATH_BLOCK] " \o spoken_math \o " [/MATH_BLOCK]"
    ELSE "[MATH] " \o spoken_math \o " [/MATH]"

RECURSIVE FallbackMathFrom(_, _, _)
RECURSIVE FallbackMathAfter(_, _, _)
\* The loop of _fallback_math_processing from expression k on: the
\* replacement is handed to re.sub as a string
FallbackMathFrom(processed_content, math_expressions, k) ==
    IF k > Len(math_expressions) THEN Returned(processed_content)
    ELSE LET spoken_math == FallbackLatexToSpeech(math_expressions[k].latex)
         IN  IF Evaluated(spoken_math)
             THEN FallbackMathAfter(ReSubStr(MathPattern(math_expressions[k]), 0,
                                             MathReplacement(spoken_math,
                                                             math_expressions[k].is_block),
                                             processed_content, 1),
                                    math_expressions, k)
             ELSE Raised

\* The loop after the call of re.sub for expression k
FallbackMathAfter(sub, math_expressions, k) ==
    IF sub.ok THEN FallbackMathFrom(sub.val, math_expressions, k + 1) ELSE Raised

\* _fallback_math_processing(content, math_expressions)
FallbackMathProcessing(content, math_expressions) == FallbackMathFrom(content, math_expressions, 1)

RECURSIVE PandocMathFrom(_, _, _, _)
\* The loop of _process_math_expressions from expression k on, the call of
\* pandoc for expression n coming to outcomes[n]: the replacement is handed
\* to re.sub as a function
PandocMathFrom(processed_content, math_expressions, k, outcomes) ==
    IF k > Len(math_expressions) \/ ~Evaluated(processed_content) THEN processed_content
    ELSE LET spoken_math == PandocLatexToSpeech(math_expressions[k].latex,
                                                math_expressions[k].is_block, outcomes[k])
         IN  IF Evaluated(spoken_math)
             THEN PandocMathFrom(
                      SubFrom(MathPattern(math_expressions[k]),
                              <<T(MathReplacement(spoken_math, math_expressions[k].is_block))>>,
                              processed_content, 1, 1),
                      math_expressions, k + 1, outcomes)
             ELSE processed_content

\* _process_math_expressions(content, math_expressions)
ProcessMathExpressions(content, math_expressions, pandoc_available, outcomes) ==
    IF ~pandoc_available THEN FallbackMathProcessing(content, math_expressions)
    ELSE Returned(PandocMathFrom(content, math_expressions, 1, outcomes))

\* NumberToWords writing the number in digits
NumberToWordsInDigits(num) == IntToStr(num)

\* _number_to_words(num), for num >= 0
NumberToWords(num) ==
    LET ones == <<"", "one", "two", "three", "four", "five", "six", "seven", "eight", "nine">>
        teens == <<"ten", "eleven", "twelve", "thirteen", "fourteen", "fifteen",
                   "sixteen", "seventeen", "eighteen", "nineteen">>
        tens == <<"", "", "twenty", "thirty", "forty", "fifty", "sixty", "seventy",
                  "eighty", "ninety">>
    IN  IF num = 0 THEN "zero"
        ELSE IF num < 10 THEN ones[num + 1]
        ELSE IF num < 20 THEN teens[num - 10 + 1]
        ELSE IF num < 100
             THEN tens[(num \div 10) + 1]
                  \o (IF num % 10 = 0 THEN "" ELSE " " \o ones[(num % 10) + 1])
        ELSE IntToStr(num)

\* _year_to_speech(year); int(year) disregards white space around the digits
YearToSpeech(year) ==
    IF ~IsInt(Strip(year)) THEN year
    ELSE LET year_int == StrToInt(Strip(year))
             century == year_int \div 100
             remainder == year_int % 100
         IN  IF 1000 <= year_int /\ year_int <= 2099
             THEN IF year_int < 2000
                  THEN IF remainder = 0 THEN NumberToWords(century) \o " hundred"
                       ELSE IF remainder < 10
                            THEN NumberToWords(century) \o " oh " \o NumberToWords(remainder)
                       ELSE NumberToWords(century) \o " " \o NumberToWords(remainder)
                  ELSE IF remainder # 0 THEN "twenty " \o NumberToWords(remainder)
                       ELSE "twenty hundred"
             ELSE year

RECURSIVE ProcessCitationsFrom(_, _, _)
ProcessCitationsFrom(enhanced, citations, k) ==
    IF k > Len(citations) \/ ~Evaluated(enhanced) THEN enhanced
    ELSE LET citation == citations[k]
             spoken_citation ==
                 IF Contains(citation.original, ",")
                 THEN citation.author \o ", " \o YearToSpeech(citation.year)
                 ELSE citation.author \o " " \o YearToSpeech(citation.year)
         IN  ProcessCitationsFrom(StrReplace(enhanced, citation.original, spoken_citation),
                                  citations, k + 1)

\* _process_citations(content, citations)
ProcessCitations(content, citations) == ProcessCitationsFrom(content, citations, 1)

RECURSIVE PronunciationGuidesFrom(_, _, _)
RECURSIVE PronunciationGuidesAfter(_, _, _)
\* The loop of _apply_pronunciation_guides from entry k on: the pronunciation
\* is handed to re.sub as a string
PronunciationGuidesFrom(enhanced, pronunciation_dict, k) ==
    IF k > Len(pronunciation_dict) \/ ~Evaluated(enhanced) THEN Returned(enhanced)
    ELSE PronunciationGuidesAfter(
             ReSubStr(<<WordB, LitCI(pronunciation_dict[k].key), WordB>>, 0,
                      pronunciation_dict[k].value, enhanced, Inf),
             pronunciation_dict, k)

\* The loop after the call of re.sub for entry k
PronunciationGuidesAfter(sub, pronunciation_dict, k) ==
    IF sub.ok THEN PronunciationGuidesFrom(sub.val, pronunciation_dict, k + 1) ELSE Raised

\* _apply_pronunciation_guides(content)
ApplyPronunciationGuides(content, pronunciation_dict) ==
    PronunciationGuidesFrom(content, pronunciation_dict, 1)

\* The substitutions of _clean_markdown_for_speech, in their order.  The one
\* that removes the quotes of inline code matches a character that no string
\* of the model holds.
CleanMarkdownRules ==
    <<
       [pat |-> <<BOL, Rep(Lit("#"), 1, 6, FALSE), Plus(OneOf(SpaceChars))>>,
        tmpl |-> <<>>],
       [pat |-> <<BOL, Lit("--"), Plus(Lit("-")), EOL>>,
        tmpl |-> <<>>],
       [pat |-> <<BOL, Lit("**"), Plus(Lit("*")), EOL>>,
        tmpl |-> <<>>],
       [pat |-> <<BOL, Lit(">"), Star(OneOf(SpaceChars))>>,
        tmpl |-> <<>>],
       [pat |-> <<BOL, Star(OneOf(SpaceChars)), OneOf({"*", "+", "-"}), Plus(OneOf(SpaceChars))>>,
        tmpl |-> <<>>],
       [pat |-> <<BOL, Star(OneOf(SpaceChars)), Plus(OneOf(Digits)), Lit("."), Plus(OneOf(SpaceChars))>>,
        tmpl |-> <<>>],
       [pat |-> <<Lit("["), Cap(1, <<Plus(NoneOf({"]"}))>>), Lit("]("), Plus(NoneOf({")"})), Lit(")")>>,
        tmpl |-> <<G(1)>>],
       [pat |-> <<Lit("["), Cap(1, <<Plus(NoneOf({"]"}))>>), Lit("]["), Star(NoneOf({"]"})), Lit("]")>>,
        tmpl |-> <<G(1)>>],
       [pat |-> <<Lit("\n"), Star(OneOf(SpaceChars)), Lit("\n")>>,
        tmpl |-> <<T("\n")>>]
    >>

\* ' '.join(s.split()): on the white space of the model's strings, what
\* re.sub(r'\s+', ' ', s).strip() gives
JoinSplit(s) == CollapseSpaces(s)

\* _clean_markdown_for_speech(content)
CleanMarkdownForSpeech(content) ==
    JoinSplit(ApplyRules(CleanMarkdownRules, content, 1, Len(CleanMarkdownRules)))

RECURSIVE SplitFrom(_, _, _)
RECURSIVE SplitAt(_, _, _, _)
\* re.split(pat, s) for a pattern without groups, from position i on
SplitFrom(pat, s, i) == IF Evaluated(s) THEN SplitAt(pat, s, i, Search(pat, s, i)) ELSE <<>>

\* The part from position i to the separator m, and the parts after it
SplitAt(pat, s, i, m) ==
    IF ~m.ok THEN <<SubSeq(s, i, Len(s))>>
    ELSE <<SubSeq(s, i, m.start - 1)>> \o SplitFrom(pat, s, m.end)

\* The length above which a sentence is given [PAUSE] markers
LongSentence == 200

\* if len(sentence) > 200: the [PAUSE] markers at natural break points
BreakLongSentence(sentence) ==
    IF Len(sentence) > LongSentence
    THEN ReSub(<<WordB, Grp(1, <<<<Lit("and")>>, <<Lit("but")>>, <<Lit("however")>>,
                                 <<Lit("therefore")>>, <<Lit("moreover")>>,
                                 <<Lit("furthermore")>>>>), WordB>>,
               <<T("[PAUSE] "), G(1)>>, sentence)
    ELSE sentence

\* re.sub(r'\*\*([^*]+)\*\*', r'[EMPHASIS] \g<1> [/EMPHASIS]', sentence)
MarkEmphasis(sentence) ==
    ReSub(<<Lit("**"), Cap(1, <<Plus(NoneOf({"*"}))>>), Lit("**")>>,
          <<T("[EMPHASIS] "), G(1), T(" [/EMPHASIS]")>>, sentence)

\* re.sub(r'\*([^*]+)\*', r'[SLIGHT_EMPHASIS] \g<1> [/SLIGHT_EMPHASIS]', sentence)
MarkSlightEmphasis(sentence) ==
    ReSub(<<Lit("*"), Cap(1, <<Plus(NoneOf({"*"}))>>), Lit("*")>>,
          <<T("[SLIGHT_EMPHASIS] "), G(1), T(" [/SLIGHT_EMPHASIS]")>>, sentence)

\* What the loop of _optimize_for_speech makes of one stripped sentence
OptimizeSentence(sentence) == MarkSlightEmphasis(MarkEmphasis(BreakLongSentence(sentence)))

\* The loop of _optimize_for_speech over the sentences, and the join
OptimizeSentences(sentences) ==
    LET kept == SelectSeq([n \in DOMAIN sentences |-> Strip(sentences[n])], LAMBDA s : s # "")
    IN  JoinWith([n \in DOMAIN kept |-> OptimizeSentence(kept[n])], ". ")

\* _optimize_for_speech(content)
OptimizeForSpeech(content) ==
    OptimizeSentences(SplitFrom(<<Plus(OneOf({".", "!", "?"}))>>,
                                CleanMarkdownForSpeech(content), 1))

\* The end of _enhance_chapter_content: the sentences are optimized
EnhanceGuided(guided) ==
    IF ~guided.ok THEN RaisedIn("_apply_pronunciation_guides")
    ELSE Returned(OptimizeForSpeech(guided.val))

\* _enhance_chapter_content once the math is processed: the citations and
\* the pronunciation guides
EnhanceProcessed(math, citations, cfg) ==
    IF ~math.ok THEN RaisedIn("_fallback_math_processing")
    ELSE EnhanceGuided(ApplyPronunciationGuides(
                           IF cfg.citation_handling THEN ProcessCitations(math.val, citations)
                           ELSE math.val,
                           cfg.pronunciation_dict))

\* _enhance_chapter_content once the content is wrapped: the math
\* expressions are extracted again and processed
EnhanceWrapped(wrapped, citations, cfg, outcomes) ==
    EnhanceProcessed(IF cfg.math_processing
                     THEN ProcessMathExpressions(wrapped, ExtractMathExpressions(wrapped),
                                                 cfg.pandoc_available, outcomes)
                     ELSE Returned(wrapped),
                     citations, cfg)

\* _enhance_chapter_content(content, doc_structure), the calls of pandoc
\* coming to outcomes, one for each math expression in its order
EnhanceChapterContent(content, citations, cfg, outcomes) ==
    EnhanceWrapped(AutoWrapMathematicalExpressions(content), citations, cfg, outcomes)

RECURSIVE EnhanceTitleFrom(_, _, _)
EnhanceTitleFrom(enhanced_title, pronunciation_dict, k) ==
    IF k > Len(pronunciation_dict) THEN enhanced_title
    ELSE EnhanceTitleFrom(StrReplace(enhanced_title, pronunciation_dict[k].key,
                                     pronunciation_dict[k].value),
                          pronunciation_dict, k + 1)

\* _enhance_chapter_title(title, level)
EnhanceChapterTitle(title, level, pronunciation_dict) ==
    EnhanceTitleFrom(title, pronunciation_dict, 1)

(***************************************************************************)
(* The engine: enhance_document and the rewriting service                  *)
(***************************************************************************)

\* self.processing_mode in ['local_ai', 'api', 'hybrid']
AiModes == {"local_ai", "api", "hybrid"}

\* InitAiProviders with every enabled provider, whatever the mode
InitAiProvidersInAnyMode(cfg) ==
    (IF cfg.ollama_enabled THEN {"ollama"} ELSE {})
        \cup (IF cfg.openai_enabled THEN {"openai"} ELSE {})

\* _init_ai_providers(): the keys of self.ai_providers
InitAiProviders(cfg) ==
    (IF cfg.mode \in {"local_ai", "hybrid"} /\ cfg.ollama_enabled THEN {"ollama"} ELSE {})
        \cup (IF cfg.mode \in {"api", "hybrid"} /\ cfg.openai_enabled THEN {"openai"} ELSE {})

\* What requests.post comes to: it raises (a timeout is an exception), or it
\* returns a response with a status code whose JSON holds the rewritten text
\* or lacks it
Reply(raises, status_code, has_text, text) ==
    [raises |-> raises, status_code |-> status_code, has_text |-> has_text, text |-> text]

\* _enhance_with_ollama(content) when the request comes to reply
EnhanceWithOllama(content, reply) ==
    IF reply.raises THEN content
    ELSE IF reply.status_code = 200
         THEN IF reply.has_text THEN reply.text ELSE content
         ELSE content

\* _enhance_with_openai(content) when the request comes to reply: a response
\* without the text raises KeyError, which the handler catches
EnhanceWithOpenai(content, reply) ==
    IF reply.raises \/ (reply.status_code = 200 /\ ~reply.has_text) THEN content
    ELSE IF reply.status_code = 200 THEN reply.text
    ELSE content

\* The provider _apply_ai_enhancement calls
ProviderCalled(ai_providers) ==
    IF "ollama" \in ai_providers THEN "ollama"
    ELSE IF "openai" \in ai_providers THEN "openai"
    ELSE "none"

\* _apply_ai_enhancement(content)
ApplyAiEnhancement(content, ai_providers, reply) ==
    IF "ollama" \in ai_providers THEN EnhanceWithOllama(content, reply)
    ELSE IF "openai" \in ai_providers THEN EnhanceWithOpenai(content, reply)
    ELSE content

\* VoiceKey giving the titles of sections the role of chapters
VoiceKeySectionAsChapter(level) ==
    IF level = 1 THEN "main_title_voice"
    ELSE IF level = 2 \/ level = 3 THEN "chapter_voice"
    ELSE "subsection_voice"

\* voice_key of a title at header level
VoiceKey(level) ==
    IF level = 1 THEN "main_title_voice"
    ELSE IF level = 2 THEN "chapter_voice"
    ELSE IF level = 3 THEN "section_voice"
    ELSE "subsection_voice"

\* Separator with nothing between a title and what follows it
SeparatorEmpty == ""

\* separator
Separator == "\n\n"

\* TitleEnd with the span ending where it starts
TitleEndAtStart(position, chapter_title) == position

\* TitleEnd with the separator counted in
TitleEndPastSeparator(position, chapter_title) == position + Len(chapter_title) + 2

\* title_end
TitleEnd(position, chapter_title) == position + Len(chapter_title)

\* PauseAfterHeading as long as the pause before a heading
PauseAfterHeadingAsBefore == "1.5"

\* The pauses before and after a heading, in seconds
PauseBeforeHeading == "1.5"
PauseAfterHeading == "2.5"

\* A call of _process_chapter_recursive in progress: the list it was called
\* for a member of, and the member the enclosing loop comes to next
Frame(nodes, next) == [nodes |-> nodes, next |-> next]

\* The math expressions _enhance_chapter_content finds in a body
BodyMathExpressions(content) ==
    ExtractMathExpressions(AutoWrapMathematicalExpressions(content))

\* The calls of _pandoc_latex_to_speech for a body, with what they returned
PandocCalls(math_expressions, outcomes) ==
    [k \in 1..Len(math_expressions) |->
        [latex |-> math_expressions[k].latex,
         is_block |-> math_expressions[k].is_block,
         outcome |-> outcomes[k],
         spoken_math |-> PandocLatexToSpeech(math_expressions[k].latex,
                                             math_expressions[k].is_block, outcomes[k])]]

(***************************************************************************)
(* The documents and configurations the engine is run on                   *)
(***************************************************************************)

MaxNodes == 4
MaxSections == 1

\* The interpreter's limit on the depth of the calls of
\* _process_chapter_recursive: a call beyond it raises RecursionError
RecursionLimit == 8

HeaderLevels == 1..4

Configuration(mode, ollama_enabled, openai_enabled, pandoc_available, pronunciation_dict) ==
    [mode |-> mode, ollama_enabled |-> ollama_enabled, openai_enabled |-> openai_enabled,
     pandoc_available |-> pandoc_available, pronunciation_dict |-> pronunciation_dict,
     math_processing |-> TRUE, citation_handling |-> TRUE]

PlainConfig == Configuration("basic", FALSE, FALSE, FALSE, <<>>)

\* A dictionary that makes the title T1 silent
SilentTitleConfig ==
    Configuration("basic", FALSE, FALSE, FALSE, <<[key |-> "T1", value |-> ""]>>)

\* A document of headers at the given levels, titled T1, T2, ...; a header
\* below level 1 is followed by a line of text
ShapeDoc(levels) ==
    JoinWith([k \in 1..Len(levels) |->
                 SubSeq("######", 1, levels[k]) \o " T" \o NatToStr(k)
                     \o (IF levels[k] = 1 THEN "" ELSE "\nSome text")], "\n")

LevelLists == UNION {[1..n -> HeaderLevels] : n \in 1..MaxNodes}

RichSections ==
    << "# Intro\nSee (Smith, 1964).",
       "## Math\nLet $x^2$ and $$\\frac{a}{b$$",
       "### Unknown\nUse $\\zzz$ here.",
       "#   \nUntitled.",
       "# API",
       "##### Deep\n**bold** text" >>

\* The documents of up to MaxSections consecutive sections, and the empty one
RichDocs ==
    {JoinWith(SubSeq(RichSections, r[1], r[2]), "\n") :
        r \in {q \in (DOMAIN RichSections) \X (DOMAIN RichSections) : q[2] < q[1] + MaxSections}}

\* Dictionaries: none; one that spells a title out and silences another; one
\* whose pronunciation is no replacement template
NoTerms == <<>>
SpelledTerms == <<[key |-> "API", value |-> "A P I"], [key |-> "Intro", value |-> ""]>>
BadTemplateTerms == <<[key |-> "text", value |-> "\\q"]>>

\* Configurations: every processing mode, with and without pandoc, with the
\* providers enabled or not
RichConfigs ==
    { Configuration("basic", TRUE, TRUE, FALSE, NoTerms),
      Configuration("basic", FALSE, FALSE, TRUE, NoTerms),
      Configuration("basic", FALSE, FALSE, TRUE, BadTemplateTerms),
      Configuration("local_ai", TRUE, FALSE, TRUE, SpelledTerms),
      Configuration("local_ai", FALSE, TRUE, FALSE, NoTerms),
      Configuration("api", FALSE, TRUE, FALSE, SpelledTerms),
      Configuration("hybrid", TRUE, TRUE, TRUE, NoTerms),
      Configuration("hybrid", FALSE, TRUE, FALSE, BadTemplateTerms) }

Rewrites == {"", "Rewritten for speech."}

Replies ==
    {Reply(TRUE, 0, FALSE, ""), Reply(FALSE, 500, FALSE, ""), Reply(FALSE, 200, FALSE, "")}
        \cup {Reply(FALSE, 200, TRUE, r) : r \in Rewrites}

\* A document whose first title begins with a word that the dictionary of
\* DroppedWordConfig drops, which leaves the title with a leading space
DroppedWordDoc == "# The API\nSome text\n## T2"
DroppedWordConfig ==
    Configuration("basic", FALSE, FALSE, FALSE, <<[key |-> "The", value |-> ""]>>)

Runs ==
    {<<ShapeDoc(levels), PlainConfig>> : levels \in LevelLists}
        \cup {<<ShapeDoc(levels), SilentTitleConfig>> : levels \in [1..2 -> HeaderLevels]}
        \cup (RichDocs \X RichConfigs)
        \cup {<<DroppedWordDoc, DroppedWordConfig>>}

(***************************************************************************)
(* enhance_document(doc_structure)                                         *)
(***************************************************************************)

Init ==
    /\ \E run \in Runs :
         /\ markdown = run[1]
         /\ config = run[2]
         /\ doc = DocumentStructure(run[1])
    /\ stack = <<Frame(Subsections(doc.chapters, 0), 1)>>
    /\ enhanced_content = <<>> /\ voice_assignments = <<>> /\ pause_markers = <<>>
    /\ chapter_breaks = <<>> /\ chapter_titles = <<>> /\ current_position = 0
    /\ math_log = <<>> /\ ai_call = NoCall /\ exception = ""
    /\ pc = "enhancing" /\ result = NoText /\ chapters = <<>>
    /\ MathIdle
    /\ UnitIdle

\* The statements of _process_chapter_recursive for the Chapter at place
\* node, up to its loop over the subsections; enhanced_chapter_content is
\* what _enhance_chapter_content returns, or its raising
EnterChapter(node, is_first, chapter_title, calls, enhanced_chapter_content) ==
    /\ chapter_titles' = Append(chapter_titles, doc.chapters[node].title)
    /\ chapter_breaks' = Append(chapter_breaks, current_position)
    /\ pause_markers' =
         Append(IF ~is_first
                THEN Append(pause_markers, [position |-> current_position,
                                            duration |-> PauseBeforeHeading])
                ELSE pause_markers,
                [position |-> TitleEnd(current_position, chapter_title) + Len(Separator),
                 duration |-> PauseAfterHeading])
    /\ voice_assignments' =
         DictSet(voice_assignments,
                 RangeKey(current_position, TitleEnd(current_position, chapter_title)),
                 VoiceKey(doc.chapters[node].level))
    /\ math_log' = math_log \o calls
    /\ IF enhanced_chapter_content.ok
       THEN /\ enhanced_content' =
                 enhanced_content \o <<chapter_title, Separator>>
                     \o (IF Strip(doc.chapters[node].content) # ""
                         THEN <<enhanced_chapter_content.val>> ELSE <<>>)
            /\ current_position' =
                 TitleEnd(current_position, chapter_title) + Len(Separator)
                     + Len(enhanced_chapter_content.val)
            /\ stack' = Append([stack EXCEPT ![Len(stack)].next = @ + 1],
                               Frame(Subsections(doc.chapters, node), 1))
            /\ UNCHANGED <<pc, exception>>
       ELSE /\ enhanced_content' = enhanced_content \o <<chapter_title, Separator>>
            /\ current_position' = TitleEnd(current_position, chapter_title) + Len(Separator)
            /\ exception' = enhanced_chapter_content.raised_in
            /\ pc' = "raised"
            /\ UNCHANGED stack

\* The call for the Chapter at place node, math_expressions being the
\* expressions pandoc is called for: each call comes to one of its outcomes
EnhanceChapter(node, is_first, math_expressions) ==
    \E outcomes \in [1..Len(math_expressions) -> PandocOutcomes] :
        EnterChapter(node, is_first,
                     EnhanceChapterTitle(doc.chapters[node].title, doc.chapters[node].level,
                                         config.pronunciation_dict),
                     PandocCalls(math_expressions, outcomes),
                     IF Strip(doc.chapters[node].content) # ""
                     THEN EnhanceChapterContent(doc.chapters[node].content, doc.citations,
                                                config, outcomes)
                     ELSE Returned(""))

\* One call of _process_chapter_recursive, up to its loop over the subsections
ProcessChapter ==
    /\ pc = "enhancing"
    /\ stack # <<>>
    /\ Len(stack) <= RecursionLimit
    /\ stack[Len(stack)].next <= Len(stack[Len(stack)].nodes)
    /\ EnhanceChapter(stack[Len(stack)].nodes[stack[Len(stack)].next],
                      Len(stack) = 1 /\ stack[Len(stack)].next = 1,
                      IF /\ Strip(doc.chapters[stack[Len(stack)].nodes[stack[Len(stack)].next]].content) # ""
                         /\ config.math_processing /\ config.pandoc_available
                      THEN BodyMathExpressions(
                               doc.chapters[stack[Len(stack)].nodes[stack[Len(stack)].next]].content)
                      ELSE <<>>)
    /\ UNCHANGED <<docVars, ai_call, result, chapters, mathVars, unitVars>>

\* The loop over the subsections is over: the call returns
ReturnFromChapter ==
    /\ pc = "enhancing"
    /\ Len(stack) > 1
    /\ stack[Len(stack)].next > Len(stack[Len(stack)].nodes)
    /\ stack' = SubSeq(stack, 1, Len(stack) - 1)
    /\ UNCHANGED <<docVars, localVars, math_log, ai_call, exception, pc, result, chapters,
                   mathVars, unitVars>>

\* The loop over doc_structure.chapters is over: the parts are joined, the
\* text is rewritten, and the EnhancedText is returned
Finish ==
    /\ pc = "enhancing"
    /\ Len(stack) = 1
    /\ stack[1].next > Len(stack[1].nodes)
    /\ LET full_content == JoinWith(enhanced_content, "")
           ai_providers == InitAiProviders(config)
           provider == IF config.mode \in AiModes THEN ProviderCalled(ai_providers) ELSE "none"
       IN  \E reply \in (IF provider = "none" THEN {Reply(FALSE, 0, FALSE, "")} ELSE Replies) :
             /\ ai_call' = [provider |-> provider,
                            content |-> IF provider = "none" THEN "" ELSE full_content,
                            raises |-> reply.raises,
                            status_code |-> reply.status_code, has_text |-> reply.has_text,
                            text |-> reply.text]
             /\ result' = EnhancedText(IF config.mode \in AiModes
                                       THEN ApplyAiEnhancement(full_content, ai_providers, reply)
                                       ELSE full_content,
                                       voice_assignments, pause_markers,
                                       config.pronunciation_dict, chapter_breaks, chapter_titles)
    /\ stack' = <<>>
    /\ pc' = "returned"
    /\ UNCHANGED <<docVars, localVars, math_log, exception, chapters, mathVars, unitVars>>

Next == ProcessChapter \/ ReturnFromChapter \/ Finish \/ SplitIntoChapters

Spec == Init /\ [][Next]_vars


(***************************************************************************)
(* Properties of enhance_document                                          *)
(***************************************************************************)

\* enhance_document has returned its EnhancedText
Enhanced == pc \in {"returned", "split"}

\* The voice spans of the returned text, in the order of their keys' insertion
Spans ==
    [k \in DOMAIN result.voice_assignments |->
        [s |-> RangeStart(result.voice_assignments[k].key),
         e |-> RangeEnd(result.voice_assignments[k].key),
         role |-> result.voice_assignments[k].value]]

\* The rewriting service answered with a text, which replaced the buffer
Rewritten ==
    ai_call.provider # "none" /\ ~ai_call.raises /\ ai_call.status_code = 200 /\ ai_call.has_text

\* The rewriting service was called and the call failed
RewriteFailed ==
    ai_call.provider # "none" /\ (ai_call.raises \/ ai_call.status_code # 200)

RECURSIVE Preorder(_, _)
\* The places of the Chapters in the order enhance_document visits them:
\* each member of the list, followed by its subsections
Preorder(nodes, list) ==
    IF Len(list) = 0 THEN <<>>
    ELSE <<Head(list)>> \o Preorder(nodes, Subsections(nodes, Head(list)))
             \o Preorder(nodes, Tail(list))

\* The header levels of the Chapters in the order of the visit
VisitedLevels ==
    LET visit == Preorder(doc.chapters, Subsections(doc.chapters, 0))
    IN  [k \in DOMAIN visit |-> doc.chapters[visit[k]].level]

\* The role the specification gives a title at a heading depth
RoleOfDepth(depth) ==
    CASE depth = 1 -> "main_title_voice"
      [] depth = 2 -> "chapter_voice"
      [] depth = 3 -> "section_voice"
      [] depth >= 4 -> "subsection_voice"

\* C1: for every document, the chapter_breaks of the returned EnhancedText
\* are strictly increasing and are as many as its chapter_titles.
C1_BreaksIncreaseAndMatchTitles ==
    Enhanced =>
        /\ Len(result.chapter_breaks) = Len(result.chapter_titles)
        /\ \A k \in 1..(Len(result.chapter_breaks) - 1) :
               result.chapter_breaks[k] < result.chapter_breaks[k + 1]

\* A text is returned for a document whose first title is spoken as nothing
\* and has no body: its two breaks are apart by the separator alone
C1_Witness ==
    /\ pc = "returned"
    /\ Len(result.chapter_breaks) >= 2
    /\ result.chapter_breaks[2] = result.chapter_breaks[1] + Len(Separator)

\* C2 as stated: every voice span (s, e, role) of the returned text has
\* 0 <= s < e <= len(buffer).
C2_SpansNonEmptyAndWithinBuffer ==
    Enhanced =>
        \A k \in DOMAIN Spans :
            0 <= Spans[k].s /\ Spans[k].s < Spans[k].e /\ Spans[k].e <= Len(result.content)

\* C2, amended: the k-th voice span starts at the k-th chapter break and is as
\* long as the k-th title after _enhance_chapter_title, so 0 <= s <= e with
\* s < e exactly when that title is not empty; and e <= len(buffer) unless the
\* rewriting service replaced the buffer.
C2_SpansCoverTitlesOfUnrewrittenBuffer ==
    Enhanced =>
        /\ Len(Spans) = Len(result.chapter_titles)
        /\ \A k \in DOMAIN Spans :
               /\ 0 <= Spans[k].s
               /\ Spans[k].s = result.chapter_breaks[k]
               /\ Spans[k].e = Spans[k].s
                      + Len(EnhanceChapterTitle(result.chapter_titles[k], 0,
                                                result.pronunciation_guides))
               /\ ~Rewritten => Spans[k].e <= Len(result.content)

\* A text is returned with an empty voice span and a non-empty one
C2_Witness ==
    /\ pc = "returned"
    /\ \E k \in DOMAIN Spans : Spans[k].s = Spans[k].e
    /\ \E k \in DOMAIN Spans : Spans[k].s < Spans[k].e

\* C6 as stated: whatever LaTeX a body holds, and whether or not pandoc is
\* available, no exception leaves enhance_document from the math processing.
C6_MathProcessingNeverRaises == exception # "_fallback_math_processing"

\* C7: a failed call of pandoc, or one whose AST yields no spoken text, gives
\* the expression the spoken form of _fallback_latex_to_speech, and no
\* exception leaves the math processing of a document when pandoc is called;
\* a failed call of the rewriting service (exception, timeout, status other
\* than 200) leaves the joined buffer and the recorded lists as they were.
C7_CollaboratorFailuresFallBack ==
    /\ \A k \in DOMAIN math_log :
           (\/ math_log[k].outcome = "fails"
            \/ ExtractMathFromAst(PandocAst(math_log[k].outcome, math_log[k].latex,
                                            math_log[k].is_block)) = "")
               => math_log[k].spoken_math = FallbackLatexToSpeech(math_log[k].latex)
    /\ (pc = "raised" /\ config.pandoc_available) => exception = "_apply_pronunciation_guides"
    /\ (Enhanced /\ RewriteFailed) =>
           /\ result.content = JoinWith(enhanced_content, "")
           /\ result.voice_assignments = voice_assignments
           /\ result.pause_markers = pause_markers
           /\ result.chapter_breaks = chapter_breaks
           /\ result.chapter_titles = chapter_titles

\* A text is returned after a failed call of pandoc and a failed call of the
\* rewriting service
C7_Witness ==
    /\ pc = "returned"
    /\ \E k \in DOMAIN math_log : math_log[k].outcome = "fails"
    /\ RewriteFailed
    /\ result.content # ""

\* C8: the role of each title span is the one of the title's heading depth,
\* whatever the place of the Chapter in the tree; the spans are in the order
\* of the visit, which is the order of their offsets; a tree visited with
\* depths 1, 2, 2, 3 has the roles main_title_voice, chapter_voice,
\* chapter_voice, section_voice.
C8_RoleByHeadingDepth ==
    Enhanced =>
        /\ Len(Spans) = Len(VisitedLevels)
        /\ \A k \in DOMAIN Spans : Spans[k].role = RoleOfDepth(VisitedLevels[k])
        /\ \A k \in 1..(Len(Spans) - 1) : Spans[k].s < Spans[k + 1].s
        /\ VisitedLevels = <<1, 2, 2, 3>> =>
               [k \in DOMAIN Spans |-> Spans[k].role]
                   = <<"main_title_voice", "chapter_voice", "chapter_voice", "section_voice">>

\* A text is returned for a tree visited with depths 1, 2, 2, 3
C8_Witness ==
    /\ pc = "returned"
    /\ VisitedLevels = <<1, 2, 2, 3>>
    /\ Len(Spans) = 4


(***************************************************************************)
(* _year_to_speech called on its own                                       *)
(***************************************************************************)
\* if 1000 <= year_int <= 2099
FirstSpokenYear == 1000
LastSpokenYear == 2099

\* How far beyond the spoken years the arguments go
YearMargin == 10

\* Strings that are no decimal integer to int(), ones it reads with a sign,
\* white space or leading zeros, and ones of another length
OddYears ==
    {"", "19a4", "1964.0", "MCMLXIV", "+ 1964", " 1964 ", "+1964", "-1964", "0999", "00001964",
     "964", "12345", "1964\n"}

YearInputs ==
    {NatToStr(n) : n \in (FirstSpokenYear - YearMargin)..(LastSpokenYear + YearMargin)}
        \cup OddYears

YearInit ==
    /\ year_str \in YearInputs
    /\ year_speech = ""
    /\ ypc = "called"
    /\ PipeIdle
    /\ MathIdle
    /\ BodyIdle
    /\ ToolIdle

\* return of _year_to_speech(year)
YearToSpeechReturns ==
    /\ ypc = "called"
    /\ year_speech' = YearToSpeech(year_str)
    /\ ypc' = "done"
    /\ UNCHANGED <<year_str, pipeVars, mathVars, bodyVars, toolVars>>

YearNext == YearToSpeechReturns

SpecYear == YearInit /\ [][YearNext]_vars

(***************************************************************************)
(* Properties of _year_to_speech                                           *)
(***************************************************************************)
\* The names of the numbers 0 to 19 and of the tens 20 to 90
UnitNames ==
    <<"zero", "one", "two", "three", "four", "five", "six", "seven", "eight", "nine", "ten",
      "eleven", "twelve", "thirteen", "fourteen", "fifteen", "sixteen", "seventeen",
      "eighteen", "nineteen">>
TenNames == <<"twenty", "thirty", "forty", "fifty", "sixty", "seventy", "eighty", "ninety">>

\* The word of a century or of a remainder: a number from 0 to 99, the tens
\* and the units apart by one space
WordOf(n) ==
    IF n < 20 THEN UnitNames[n + 1]
    ELSE TenNames[(n \div 10) - 1] \o (IF n % 10 = 0 THEN "" ELSE " " \o UnitNames[(n % 10) + 1])

\* The argument is an integer to int(), and its value
YearIsInteger == IsInt(Strip(year_str))
YearValue == StrToInt(Strip(year_str))
YearIsSpoken == YearIsInteger /\ FirstSpokenYear <= YearValue /\ YearValue <= LastSpokenYear

\* The result holds no digit
NoDigitIn(s) == \A k \in 1..Len(s) : At(s, k) \notin Digits

Part(kind, text, a, b) == [kind |-> kind, text |-> text, a |-> a, b |-> b]

Words == {Part("text", " is small. ", "", "")}

\* Bare notation in prose
Notations ==
    {Part("notation", "P(A)", "P", "A"), Part("notation", "E[X]", "E", "X"),
     Part("notation", "Var(X)", "Var", "X"), Part("notation", "SD(X)", "SD", "X")}

\* Citations with and without a comma
CitationTokens ==
    {Part("citation", "(Smith, 1964)", "Smith", "1964"),
     Part("citation", "[Jones 2005]", "Jones", "2005")}

\* Spans in math delimiters, inline and block
MathSpans == {Part("math", "$x^2$", "x^2", ""), Part("math", "$$P(B)$$", "P(B)", "")}

\* Text with one delimiter that has no partner
Strays == {Part("stray", " f(x) costs $5", "", "")}

\* What a body is about, and what stands before or after it
Subjects == Notations \cup CitationTokens \cup MathSpans
Contexts == Words \cup {Part("notation", "P(A)", "P", "A")}

\* A body is a subject alone, or with a context on one side or on both
BodyInputs ==
    {<<s>> : s \in Subjects}
        \cup {<<c, s>> : c \in Contexts, s \in Subjects}
        \cup {<<s, c>> : s \in Subjects, c \in Contexts}
        \cup {<<c, s, d>> : c \in Contexts, s \in Subjects, d \in Contexts}

BodyText(ps) == JoinWith([k \in DOMAIN ps |-> ps[k].text], "")

\* pandoc missing, and pandoc found
BodyConfigs ==
    {Configuration("basic", FALSE, FALSE, FALSE, NoTerms),
     Configuration("basic", FALSE, FALSE, TRUE, NoTerms)}

\* _enhance_chapter_content is called for one of the bodies
BodyCalled(inputs) ==
    /\ body_parts \in inputs
    /\ markdown = BodyText(body_parts)
    /\ config \in BodyConfigs
    /\ doc = DocumentStructure(markdown)
    /\ body_steps = <<markdown>>
    /\ bpc = "wrap"
    /\ stack = <<>>
    /\ enhanced_content = <<>> /\ voice_assignments = <<>> /\ pause_markers = <<>>
    /\ chapter_breaks = <<>> /\ chapter_titles = <<>> /\ current_position = 0
    /\ math_log = <<>> /\ ai_call = NoCall /\ exception = ""
    /\ pc = "idle" /\ result = NoText /\ chapters = <<>>
    /\ MathIdle
    /\ YearIdle
    /\ ToolIdle

BodyInit == BodyCalled(BodyInputs)

\* What the statements of _enhance_chapter_content leave alone
BodyFrame ==
    UNCHANGED <<body_parts, docVars, stack, localVars, ai_call, pc, result, chapters,
                mathVars, yearVars, toolVars>>

\* The statement at bpc has assigned text to enhanced_content
BodyStep(text, next) ==
    /\ body_steps' = Append(body_steps, text)
    /\ bpc' = next
    /\ UNCHANGED exception

\* The statement at bpc has raised in the function f
BodyRaise(f) ==
    /\ bpc' = "raised"
    /\ exception' = f
    /\ UNCHANGED body_steps

\* enhanced_content = self._auto_wrap_mathematical_expressions(enhanced_content)
AutoWrap ==
    /\ bpc = "wrap"
    /\ BodyStep(AutoWrapMathematicalExpressions(body_steps[Len(body_steps)]), "math")
    /\ UNCHANGED math_log
    /\ BodyFrame

\* What _process_math_expressions came to for the calls of pandoc made
MathProcessed(math, calls) ==
    /\ math_log' = calls
    /\ IF math.ok THEN BodyStep(math.val, "citations")
       ELSE BodyRaise("_fallback_math_processing")

\* _process_math_expressions for the expressions extracted again, pandoc being
\* called for each when it was found
ProcessMathOf(wrapped, math_expressions) ==
    \E outcomes \in [1..(IF config.pandoc_available THEN Len(math_expressions) ELSE 0)
                         -> PandocOutcomes] :
        MathProcessed(ProcessMathExpressions(wrapped, math_expressions,
                                             config.pandoc_available, outcomes),
                      IF config.pandoc_available THEN PandocCalls(math_expressions, outcomes)
                      ELSE <<>>)

\* if math_processing enabled: enhanced_content = self._process_math_expressions(...)
ProcessMath ==
    /\ bpc = "math"
    /\ IF config.math_processing
       THEN ProcessMathOf(body_steps[Len(body_steps)],
                          ExtractMathExpressions(body_steps[Len(body_steps)]))
       ELSE BodyStep(body_steps[Len(body_steps)], "citations") /\ UNCHANGED math_log
    /\ BodyFrame

\* if citation_handling enabled: enhanced_content = self._process_citations(...)
ProcessCitationsOfBody ==
    /\ bpc = "citations"
    /\ BodyStep(IF config.citation_handling
                THEN ProcessCitations(body_steps[Len(body_steps)], doc.citations)
                ELSE body_steps[Len(body_steps)], "guides")
    /\ UNCHANGED math_log
    /\ BodyFrame

\* What _apply_pronunciation_guides came to
Guided(guided) ==
    IF guided.ok THEN BodyStep(guided.val, "optimize")
    ELSE BodyRaise("_apply_pronunciation_guides")

\* enhanced_content = self._apply_pronunciation_guides(enhanced_content)
ApplyGuides ==
    /\ bpc = "guides"
    /\ Guided(ApplyPronunciationGuides(body_steps[Len(body_steps)], config.pronunciation_dict))
    /\ UNCHANGED math_log
    /\ BodyFrame

\* enhanced_content = self._optimize_for_speech(enhanced_content); return
OptimizeBody ==
    /\ bpc = "optimize"
    /\ BodyStep(OptimizeForSpeech(body_steps[Len(body_steps)]), "done")
    /\ UNCHANGED math_log
    /\ BodyFrame

BodyNext == AutoWrap \/ ProcessMath \/ ProcessCitationsOfBody \/ ApplyGuides \/ OptimizeBody

SpecBody == BodyInit /\ [][BodyNext]_vars



(***************************************************************************)
(* Properties of _enhance_chapter_content and of the functions it calls    *)
(***************************************************************************)
\* The body after the auto-wrapper, after the math processing and after the
\* citation processing, once the statement has run
Wrapped == body_steps[2]
MathSpoken == body_steps[3]
Cited == body_steps[4]

\* The parts of the body of one kind
PartsOfKind(kind) == {body_parts[k] : k \in {n \in DOMAIN body_parts : body_parts[n].kind = kind}}

\* C11 as stated: a citation token with a comma is replaced in the body by the
\* author, ", " and the spoken year, one without a comma by the author, " "
\* and the spoken year; "(Smith, 1964)" becomes "Smith, nineteen sixty-four".
C11_CitationReadAsAuthorAndYear ==
    Len(body_steps) >= 4 =>
        \A c \in PartsOfKind("citation") :
            /\ ~Contains(Cited, c.text)
            /\ Contains(Cited, c.a \o (IF Contains(c.text, ",") THEN ", " ELSE " ")
                                   \o YearToSpeech(c.b))
            /\ c.text = "(Smith, 1964)" => Contains(Cited, "Smith, nineteen sixty-four")

\* The body holds no math delimiter
ProseWithoutDelimiters == ~Contains(BodyText(body_parts), "$")

\* C13 as stated: a bare P(A) in prose that holds no math delimiter is wrapped
\* into one span in math delimiters, and the math processing then turns the
\* span into text that holds "probability of A", whether pandoc is missing,
\* fails, or returns an AST.
C13_BareProbabilityWrappedAndSpoken ==
    \A n \in {q \in PartsOfKind("notation") : q.a = "P" /\ ProseWithoutDelimiters} :
        /\ Len(body_steps) >= 2 =>
               /\ Contains(Wrapped, "$P(" \o n.b \o ")$")
               /\ Count(Wrapped, "P(" \o n.b \o ")", 1) = Count(Wrapped, "$P(" \o n.b \o ")$", 1)
        /\ Len(body_steps) >= 3 => Contains(MathSpoken, "probability of " \o n.b)

\* How the statistics are to be read
ReadingOf(a) ==
    CASE a = "P" -> "probability of "
      [] a = "E" -> "expected value of "
      [] a = "Var" -> "variance of "
      [] a = "SD" -> "standard deviation of "

\* C14 as stated: for prose with E[X], Var(X) or SD(X), wrapping and then the
\* math processing yield "expected value of X", "variance of X" and "standard
\* deviation of X", and leave no "Var(X)" or "SD(X)".
C14_WrappedStatisticsSpoken ==
    Len(body_steps) >= 3 =>
        \A n \in PartsOfKind("notation") :
            /\ Contains(MathSpoken, ReadingOf(n.a) \o n.b)
            /\ ~Contains(MathSpoken, n.text)

(***************************************************************************)
(* _auto_wrap_mathematical_expressions on its own: the first statement of  *)
(* _enhance_chapter_content, for bodies of up to MaxParts parts.           *)
(***************************************************************************)
MaxParts == 2

\* Bare notation whose argument is a notation
NestedNotations == {Part("notation", "E[f(x)]", "E", "f(x)")}

\* A stray delimiter only in the last part: before another delimiter it
\* would have a partner
PartsOfBodies ==
    Words \cup Notations \cup NestedNotations \cup CitationTokens \cup MathSpans \cup Strays

WrapInputs ==
    {ps \in SeqsUpTo(PartsOfBodies, MaxParts) :
        \A k \in 1..(Len(ps) - 1) : ps[k].kind # "stray"}

WrapInit == BodyCalled(WrapInputs)

WrapNext == AutoWrap

SpecWrap == WrapInit /\ [][WrapNext]_vars


(***************************************************************************)
(* Properties of _auto_wrap_mathematical_expressions                       *)
(***************************************************************************)
RECURSIVE SpansOf(_)
\* The spans of a body written from the parts ps: each span in math
\* delimiters, and each literal span between two of them or at an end
SpansOf(ps) ==
    IF Len(ps) = 0 THEN <<>>
    ELSE IF Head(ps).kind = "math"
         THEN <<[math |-> TRUE, text |-> Head(ps).text]>> \o SpansOf(Tail(ps))
    ELSE IF Len(ps) > 1 /\ ps[2].kind # "math"
         THEN SpansOf(<<Part("text", ps[1].text \o ps[2].text, "", "")>> \o SubSeq(ps, 3, Len(ps)))
    ELSE <<[math |-> FALSE, text |-> Head(ps).text]>> \o SpansOf(Tail(ps))

\* C15: the wrapped body is the spans of the body in their order, each span in
\* math delimiters as it was, each literal span with a delimiter as it was,
\* and every other literal span as _wrap_math_in_text returns it.
C15_WrapperLeavesMathSpansAlone ==
    Len(body_steps) >= 2 =>
        body_steps[2] =
            JoinWith([k \in DOMAIN SpansOf(body_parts) |->
                         IF SpansOf(body_parts)[k].math \/ Contains(SpansOf(body_parts)[k].text, "$")
                         THEN SpansOf(body_parts)[k].text
                         ELSE WrapMathInText(SpansOf(body_parts)[k].text)], "")

\* A body of a bare notation and a span in math delimiters has been wrapped,
\* and the notation is in delimiters now
C15_Witness ==
    /\ bpc = "math"
    /\ body_parts = <<Part("notation", "P(A)", "P", "A"), Part("math", "$$P(B)$$", "P(B)", "")>>
    /\ body_steps[2] = "$P(A)$$$P(B)$$"


(***************************************************************************)
(* validate_enhancement(enhanced_text) called on its own                   *)
(***************************************************************************)

\* The length above which a sentence is reported, and the length below which
\* the content is
VeryLongSentence == 300
MinContentLength == 50

\* re.search(r'\$[^$]+\$', content)
HasInlineMath(content) ==
    Search(<<Lit("$"), Plus(NoneOf({"$"})), Lit("$")>>, content, 1).ok

\* re.search(r'\$\$[^$]+\$\$', content)
HasBlockMath(content) ==
    Search(<<Lit("$$"), Plus(NoneOf({"$"})), Lit("$$")>>, content, 1).ok

\* long_sentences: the sentences of re.split(r'[.!?]+', content) that are
\* longer than 300 characters when stripped
LongSentences(content) ==
    SelectSeq(SplitFrom(<<Plus(OneOf({".", "!", "?"}))>>, content, 1),
              LAMBDA s : Len(Strip(s)) > VeryLongSentence)

\* EmphasisBalanced finding every buffer balanced
EmphasisAlwaysBalanced(content) == TRUE

\* emphasis_starts == emphasis_ends
EmphasisBalanced(content) == Count(content, "[EMPHASIS]", 1) = Count(content, "[/EMPHASIS]", 1)

\* The issues of validate_enhancement, in the order they are appended
ValidationIssues(content) ==
    (IF HasInlineMath(content) THEN <<"Unprocessed inline math expressions found">> ELSE <<>>)
        \o (IF HasBlockMath(content) THEN <<"Unprocessed block math expressions found">> ELSE <<>>)
        \o (IF Len(LongSentences(content)) > 0
            THEN <<"Found " \o IntToStr(Len(LongSentences(content)))
                       \o " very long sentences that may be hard to narrate">>
            ELSE <<>>)
        \o (IF ~EmphasisBalanced(content) THEN <<"Unbalanced emphasis markers">> ELSE <<>>)
        \o (IF Len(Strip(content)) < MinContentLength
            THEN <<"Enhanced content is very short">> ELSE <<>>)

\* validate_enhancement(enhanced_text): (len(issues) == 0, issues)
ValidateEnhancementOf(issues) == [is_valid |-> Len(issues) = 0, issues |-> issues]

RECURSIVE Repeated(_, _)
\* s * n
Repeated(s, n) ==
    IF n = 0 THEN ""
    ELSE IF n % 2 = 1 THEN s \o Repeated(s, n - 1)
    ELSE Repeated(s \o s, n \div 2)

\* What a buffer is made of.  Prose that brings the buffer to the minimum
\* length, prose that does not, and white space of the minimum length
Proses ==
    {"", "Short. ", Repeated(" ", MinContentLength),
     "This sentence brings the text to its minimum length. "}

\* Math delimiters: none, an inline pair, a block pair, a pair of delimiters
\* with nothing between, a lone delimiter, two prices
Dollars == {"", "Let $x$ be. ", "Let $$x$$ be. ", "Let $$ be. ", "It costs $5. ", "From $5 to $6. "}

\* Emphasis markers: none, a pair, an opening one alone, a closing one alone,
\* a pair of the slight ones
Emphases ==
    {"", "[EMPHASIS] yes [/EMPHASIS]. ", "[EMPHASIS] yes. ", "yes [/EMPHASIS]. ",
     "[SLIGHT_EMPHASIS] yes [/SLIGHT_EMPHASIS]. "}

\* Sentences at the threshold, over it, and over it only with the white space
\* around them
Sentences ==
    {Repeated("a", VeryLongSentence) \o ". ", Repeated("a", VeryLongSentence + 1) \o ". ",
     "  " \o Repeated("a", VeryLongSentence - 1) \o "  ? "}

\* Every buffer of prose, delimiters and markers, and the ones with no
\* prose, a pair of delimiters or none, and a long sentence
ValidateInputs ==
    {EnhancedText(p \o d \o e, <<>>, <<>>, <<>>, <<>>, <<>>) :
        p \in Proses, d \in Dollars, e \in Emphases}
    \cup {EnhancedText(d \o e \o s, <<>>, <<>>, <<>>, <<>>, <<>>) :
            d \in {"", "Let $x$ be. "}, e \in {"", "[EMPHASIS] yes. "}, s \in Sentences}

\* enhance_document has returned the EnhancedText, and main calls
\* validate_enhancement on it
ValidateInit ==
    /\ result \in ValidateInputs
    /\ pc = "returned"
    /\ chapters = <<>>
    /\ EngineIdle
    /\ MathIdle
    /\ YearIdle /\ BodyIdle /\ CliIdle
    /\ validation = NoValidation
    /\ vpc = "called"

\* return of validate_enhancement(enhanced_text)
ValidateEnhancement ==
    /\ vpc = "called"
    /\ validation' = ValidateEnhancementOf(ValidationIssues(result.content))
    /\ vpc' = "done"
    /\ UNCHANGED <<pipeVars, mathVars, yearVars, bodyVars, cliVars>>

ValidateNext == ValidateEnhancement

SpecValidate == ValidateInit /\ [][ValidateNext]_vars


(***************************************************************************)
(* Properties of validate_enhancement                                      *)
(***************************************************************************)
\* Two delimiters of n characters "$" each, with characters other than "$",
\* and at least one, between them
DelimiterPairLeft(s, n) ==
    \E i \in 1..Len(s) : \E j \in (i + n + 1)..(Len(s) - n + 1) :
        /\ SubSeq(s, i, i + n - 1) = Repeated("$", n)
        /\ SubSeq(s, j, j + n - 1) = Repeated("$", n)
        /\ \A k \in (i + n)..(j - 1) : At(s, k) # "$"

\* The sentences of s: the longest runs of characters other than ".", "!"
\* and "?", as pairs of their first and last positions
SentenceEnds == {".", "!", "?"}
SentencesOf(s) ==
    {<<i, Least({j \in i..Len(s) : j = Len(s) \/ At(s, j + 1) \in SentenceEnds})>> :
        i \in {n \in 1..Len(s) :
                 At(s, n) \notin SentenceEnds /\ (n = 1 \/ At(s, n - 1) \in SentenceEnds)}}

\* There is a sentence of more than VeryLongSentence characters between its
\* first and its last character that is no white space
SentenceOverThreshold(s) ==
    \E r \in SentencesOf(s) : Len(Strip(SubSeq(s, r[1], r[2]))) > VeryLongSentence

\* The places where the marker stands in s
PlacesOf(s, marker) == {i \in 1..Len(s) : StartsAt(s, i, marker)}

UnequalEmphasisCounts(s) ==
    Cardinality(PlacesOf(s, "[EMPHASIS]")) # Cardinality(PlacesOf(s, "[/EMPHASIS]"))

\* Fewer than MinContentLength characters from the first to the last one that
\* is no white space
ShorterThanMinimum(s) == Len(Strip(s)) < MinContentLength

\* An issue that begins with the words is among the issues returned
Reports(words) ==
    \E k \in DOMAIN validation.issues : StartsAt(validation.issues[k], 1, words)

\* The issues returned are those of the four conditions that hold of the
\* content, one issue for each (a block pair is an inline pair as well, and
\* has an issue of its own), and ok is true exactly when there is no issue
IssuesMatchConditions ==
    vpc = "done" =>
        /\ validation.is_valid = (validation.issues = <<>>)
        /\ Reports("Unprocessed inline math") = DelimiterPairLeft(result.content, 1)
        /\ Reports("Unprocessed block math") = DelimiterPairLeft(result.content, 2)
        /\ Reports("Found ") = SentenceOverThreshold(result.content)
        /\ Reports("Unbalanced emphasis") = UnequalEmphasisCounts(result.content)
        /\ Reports("Enhanced content is very short") = ShorterThanMinimum(result.content)
        /\ Len(validation.issues)
             = Cardinality({c \in {"i", "b", "s", "e", "m"} :
                   \/ c = "i" /\ DelimiterPairLeft(result.content, 1)
                   \/ c = "b" /\ DelimiterPairLeft(result.content, 2)
                   \/ c = "s" /\ SentenceOverThreshold(result.content)
                   \/ c = "e" /\ UnequalEmphasisCounts(result.content)
                   \/ c = "m" /\ ShorterThanMinimum(result.content)})

\* C16: validate_enhancement returns (ok, issues) with ok true exactly when
\* issues is empty, and an issue for each of the four conditions exactly when
\* the condition holds of the content: a pair of math delimiters left, a
\* sentence over the threshold, unequal counts of the opening and the closing
\* emphasis marker, content shorter than the minimum; it returns for every
\* content, and no step of it changes the EnhancedText.
C16_ValidationReportsEachCondition ==
    /\ []IssuesMatchConditions
    /\ [][vpc = "called" /\ vpc' = "done" /\ result' = result]_vars

\* validate_enhancement has returned one issue, for the opening emphasis
\* marker that has no closing one, in a text that has no other issue
C16_Witness ==
    /\ vpc = "done"
    /\ ~validation.is_valid
    /\ validation.issues = <<"Unbalanced emphasis markers">>
    /\ result.content = "This sentence brings the text to its minimum length. "
                            \o "It costs $5. " \o "[EMPHASIS] yes. "


(***************************************************************************)
(* enhance_document for a DocumentStructure that a caller has put          *)
(* together: a Chapter may be a member of its own subsections, or of those *)
(* of a Chapter below it.                                                  *)
(***************************************************************************)

\* Which Chapters each Chapter holds, the first Chapter being the one member
\* of doc_structure.chapters: lists with a cycle and lists without
CyclicLinks ==
    { <<<<1>>>>,
      <<<<2>>, <<1>>>>,
      <<<<2, 1>>, <<>>>>,
      <<<<2>>, <<2>>>>,
      <<<<2>>, <<3>>, <<1>>>>,
      <<<<2>>, <<3>>, <<2>>>>,
      <<<<2, 3>>, <<>>, <<1>>>> }
TreeLinks ==
    { <<<<>>>>,
      <<<<2>>, <<>>>>,
      <<<<2, 3>>, <<>>, <<>>>>,
      <<<<2>>, <<3>>, <<>>>> }

LinkedTitles == <<"A", "B", "C">>

\* The Chapters linked as links says, each with the body or with none
LinkedChapters(links, body) ==
    [n \in DOMAIN links |->
        LinkedChapter(IF n = 1 THEN 1 ELSE 2, LinkedTitles[n], body,
                      IF n = 1 THEN 0 ELSE 1, links[n])]

LinkedBodies == {"", "Some text"}

\* enhance_document is called for the linked Chapters
CycleInit ==
    /\ \E links \in CyclicLinks \cup TreeLinks : \E body \in LinkedBodies :
         doc = [chapters |-> LinkedChapters(links, body), citations |-> <<>>]
    /\ markdown = ""
    /\ config = PlainConfig
    /\ stack = <<Frame(Subsections(doc.chapters, 0), 1)>>
    /\ enhanced_content = <<>> /\ voice_assignments = <<>> /\ pause_markers = <<>>
    /\ chapter_breaks = <<>> /\ chapter_titles = <<>> /\ current_position = 0
    /\ math_log = <<>> /\ ai_call = NoCall /\ exception = ""
    /\ pc = "enhancing" /\ result = NoText /\ chapters = <<>>
    /\ MathIdle
    /\ UnitIdle

\* The call of _process_chapter_recursive for the next subsection is one call
\* too deep: the interpreter raises RecursionError, which leaves
\* enhance_document
RecursionLimitReached ==
    /\ pc = "enhancing"
    /\ Len(stack) > RecursionLimit
    /\ stack[Len(stack)].next <= Len(stack[Len(stack)].nodes)
    /\ pc' = "raised"
    /\ exception' = "RecursionError"
    /\ UNCHANGED <<docVars, stack, localVars, math_log, ai_call, result, chapters,
                   mathVars, unitVars>>

CycleNext == ProcessChapter \/ ReturnFromChapter \/ Finish \/ RecursionLimitReached

SpecCycle == CycleInit /\ [][CycleNext]_vars


(***************************************************************************)
(* Properties of enhance_document for linked Chapters                      *)
(***************************************************************************)
RECURSIVE ReachableVia(_, _)
\* The Chapters of S and every Chapter under one of them
ReachableVia(nodes, S) ==
    LET more == S \cup UNION {{Subsections(nodes, s)[k] : k \in DOMAIN Subsections(nodes, s)} : s \in S}
    IN  IF more = S THEN S ELSE ReachableVia(nodes, more)

\* The Chapters under Chapter n
Below(nodes, n) ==
    ReachableVia(nodes, {Subsections(nodes, n)[k] : k \in DOMAIN Subsections(nodes, n)})

\* A Chapter of the document is reachable from itself through subsections
HasCycle ==
    \E n \in ReachableVia(doc.chapters, {0}) \ {0} : n \in Below(doc.chapters, n)

\* The Chapters whose calls of _process_chapter_recursive are in progress,
\* outermost first
CallsInProgress ==
    [k \in 1..(Len(stack) - 1) |-> stack[k].nodes[stack[k].next - 1]]

\* C17 as stated: for a chapter tree with a cycle the traversal detects the
\* violation, so that no Chapter is entered within itself, and aborts with an
\* error that describes it: no EnhancedText is returned, and the error is not
\* the interpreter's own for calls that are too deep.
C17_CycleDetectedAndReported ==
    HasCycle =>
        /\ pc # "returned"
        /\ \A j, k \in DOMAIN CallsInProgress :
               j # k => CallsInProgress[j] # CallsInProgress[k]
        /\ pc = "raised" => exception # "RecursionError"

(***************************************************************************)
(* main: from the parsed arguments to the call of enhance_document         *)
(***************************************************************************)

\* choices=["basic", "local-ai", "api", "hybrid"], default="hybrid"
ModeChoices == {"basic", "local-ai", "api", "hybrid"}

\* processing.mode of the configuration loaded ("": the key is missing)
FileModes == {"", "local_ai", "api"}

\* config['processing']['mode'] after 'Override mode if specified'
ConfiguredMode(arg_mode, file_mode) ==
    IF arg_mode # "hybrid" THEN arg_mode
    ELSE IF file_mode = "" THEN "hybrid" ELSE file_mode

\* processing_mode as main hands it to TextEnhancer: without credentials and
\* without --dry-run, the modes 'api' and 'hybrid' become 'basic'
ProcessingMode(arg_mode, file_mode, creds, dry_run) ==
    IF ConfiguredMode(arg_mode, file_mode) \in {"api", "hybrid"} /\ ~creds /\ ~dry_run
    THEN "basic"
    ELSE ConfiguredMode(arg_mode, file_mode)

\* The arguments are parsed and the input file is there
CliInit ==
    /\ args \in [mode : ModeChoices, dry_run : BOOLEAN]
    /\ google_creds \in BOOLEAN
    /\ cpc = "parsed"
    /\ markdown = ShapeDoc(<<1, 2>>)
    /\ \E file_mode \in FileModes : \E ollama_enabled, openai_enabled \in BOOLEAN :
         config = Configuration(file_mode, ollama_enabled, openai_enabled, FALSE, NoTerms)
    /\ doc = [chapters |-> <<>>, citations |-> <<>>]
    /\ stack = <<>>
    /\ enhanced_content = <<>> /\ voice_assignments = <<>> /\ pause_markers = <<>>
    /\ chapter_breaks = <<>> /\ chapter_titles = <<>> /\ current_position = 0
    /\ math_log = <<>> /\ ai_call = NoCall /\ exception = ""
    /\ pc = "idle" /\ result = NoText /\ chapters = <<>>
    /\ MathIdle
    /\ YearIdle /\ BodyIdle /\ ValidateIdle

\* main loads the configuration, settles the processing mode, processes the
\* markdown, makes the TextEnhancer with the mode and calls enhance_document
Main ==
    /\ cpc = "parsed"
    /\ config' = [config EXCEPT !.mode = ProcessingMode(args.mode, config.mode,
                                                        google_creds, args.dry_run)]
    /\ doc' = DocumentStructure(markdown)
    /\ stack' = <<Frame(Subsections(doc'.chapters, 0), 1)>>
    /\ pc' = "enhancing"
    /\ cpc' = "enhancing"
    /\ UNCHANGED <<markdown, localVars, math_log, ai_call, exception, result, chapters,
                   mathVars, yearVars, bodyVars, validateVars, args, google_creds>>

CliNext == Main \/ ProcessChapter \/ ReturnFromChapter \/ Finish

SpecCli == CliInit /\ [][CliNext]_vars


(***************************************************************************)
(* Properties of main                                                      *)
(***************************************************************************)
\* C18 as stated: run with --mode local-ai and with Ollama enabled in the
\* configuration, the TextEnhancer has Ollama among its providers and
\* enhance_document gives the completed buffer to it for rewriting.
C18_LocalAiModeRewritesWithOllama ==
    (args.mode = "local-ai" /\ config.ollama_enabled) =>
        /\ cpc = "enhancing" => "ollama" \in InitAiProviders(config)
        /\ pc = "returned" => ai_call.provider = "ollama"

(***************************************************************************)
(* enhance_document run to its end: every call that can be made is made    *)
(***************************************************************************)
\* The documents of up to three headers of the first three levels, with no
\* dictionary or with the one that makes a title silent
LiveLevelLists == {levels \in LevelLists : Len(levels) <= 3 /\ \A k \in DOMAIN levels : levels[k] <= 3}

LiveInit ==
    /\ Init
    /\ config \in {PlainConfig, SilentTitleConfig}
    /\ \E levels \in LiveLevelLists : markdown = ShapeDoc(levels)

\* _process_chapter_recursive can be called: the loop of the running call has
\* a member left and the interpreter has room for the call.  This is
\* ENABLED <<ProcessChapter>>_vars: the call always has an outcome, and it
\* moves the loop on
ProcessChapterEnabled ==
    /\ pc = "enhancing"
    /\ stack # <<>>
    /\ Len(stack) <= RecursionLimit
    /\ stack[Len(stack)].next <= Len(stack[Len(stack)].nodes)

\* The interpreter runs enhance_document, and main the split after it, as
\* long as there is a statement to run: weak fairness of each step, that of
\* ProcessChapter with its ENABLED written as ProcessChapterEnabled
SpecLive ==
    /\ LiveInit
    /\ [][Next]_vars
    /\ ([]<>~ProcessChapterEnabled \/ []<><<ProcessChapter>>_vars)
    /\ WF_vars(ReturnFromChapter)
    /\ WF_vars(Finish)
    /\ WF_vars(SplitIntoChapters)

\* The Chapters that were appended to the subsections of Chapter p (p = 0: to
\* the chapters of the document), in the order of the source
AppendedTo(nodes, p) == {n \in DOMAIN nodes : nodes[n].parent = p}

RECURSIVE TreeInPreorder(_, _)
\* The Chapters of the set S and the Chapters below them: each Chapter, the
\* Chapters below it, and then the next Chapter of S in the order of the source
TreeInPreorder(nodes, S) ==
    IF S = {} THEN <<>>
    ELSE <<Least(S)>> \o TreeInPreorder(nodes, AppendedTo(nodes, Least(S)))
             \o TreeInPreorder(nodes, S \ {Least(S)})

\* The titles of the document as they stand in the source, in pre-order
TitlesInPreorder ==
    [k \in DOMAIN TreeInPreorder(doc.chapters, AppendedTo(doc.chapters, 0)) |->
        doc.chapters[TreeInPreorder(doc.chapters, AppendedTo(doc.chapters, 0))[k]].title]

\* C19: for every document, whose Chapters make a finite tree, enhance_document
\* comes to its end, and the chapter_titles it returns are the titles of the
\* Chapters as they stand in the source, each Chapter once, a Chapter before
\* the Chapters below it and these in the order of the source; while it runs,
\* the titles recorded so far are the first of that sequence.
C19_PreorderVisitTerminates ==
    /\ <>(pc # "enhancing")
    /\ [](Enhanced => result.chapter_titles = TitlesInPreorder)
    /\ [](pc = "enhancing" =>
              /\ Len(chapter_titles) <= Len(TitlesInPreorder)
              /\ chapter_titles = SubSeq(TitlesInPreorder, 1, Len(chapter_titles)))

\* enhance_document has returned for a document whose third Chapter is below
\* the first and whose second is not, and for one whose title the
\* pronunciation guide changes in the buffer
C19_Witness ==
    /\ pc = "returned"
    /\ \/ result.chapter_titles = <<"T1", "T3", "T2">>
       \/ /\ config = SilentTitleConfig
          /\ result.chapter_titles = <<"T1", "T2">>
          /\ result.content # ""


(***************************************************************************)
(* Properties of the write cursor                                          *)
(***************************************************************************)
\* The length of the pieces appended to the buffer
LengthOfPieces(pieces) == Len(JoinWith(pieces, ""))

\* The pieces a step has appended
Appended == SubSeq(enhanced_content', Len(enhanced_content) + 1, Len(enhanced_content'))

\* The Chapter that the next call of _process_chapter_recursive is for
NextChapter == doc.chapters[stack[Len(stack)].nodes[stack[Len(stack)].next]]

SpokenTitle(k) ==
    EnhanceChapterTitle(result.chapter_titles[k], 0, result.pronunciation_guides)

\* C21: when the returned content is the buffer as appended (no rewrite),
\* there is one voice span per Chapter visited, and the span (s, e) of the
\* k-th Chapter has buffer[s:e] equal to its title after pronunciation
\* substitution and buffer[e:e+2] equal to the separator "\n\n".
C21_SpanCoversTransformedTitle ==
    (Enhanced /\ ~Rewritten) =>
        /\ Len(Spans) = Len(result.chapter_titles)
        /\ \A k \in DOMAIN Spans :
               /\ 0 <= Spans[k].s /\ Spans[k].s <= Spans[k].e
               /\ Spans[k].e + 2 <= Len(result.content)
               /\ Slice(result.content, Spans[k].s, Spans[k].e) = SpokenTitle(k)
               /\ Slice(result.content, Spans[k].e, Spans[k].e + 2) = "\n\n"

\* A buffer is returned as appended, with a title that the dictionary has
\* changed into another text
C21_Witness ==
    /\ pc = "returned"
    /\ ~Rewritten
    /\ \E k \in DOMAIN Spans : /\ SpokenTitle(k) # result.chapter_titles[k]
                               /\ SpokenTitle(k) # ""
                               /\ Spans[k].e > Spans[k].s

\* The voice spans open at their Chapters' breaks, close before the next
\* break, are pairwise disjoint and straddle no break; the first break is 0
SpansWithinTheirChapters ==
    /\ Len(Spans) = Len(result.chapter_breaks)
    /\ \A k \in DOMAIN Spans :
           /\ Spans[k].s = result.chapter_breaks[k]
           /\ Spans[k].s <= Spans[k].e
           /\ k < Len(Spans) => Spans[k].e < result.chapter_breaks[k + 1]
    /\ result.chapter_breaks # <<>> => result.chapter_breaks[1] = 0
    /\ \A j, k \in DOMAIN Spans : j < k => Spans[j].e <= Spans[k].s
    /\ \A k \in DOMAIN Spans : \A n \in DOMAIN result.chapter_breaks :
           ~(Spans[k].s < result.chapter_breaks[n] /\ result.chapter_breaks[n] < Spans[k].e)

\* C22 as stated: in every EnhancedText returned, each voice span opens at its
\* Chapter's break and closes before the next break, the last one at or
\* before the end of the content.
C22_SpansCloseBeforeNextBreakOrEnd ==
    Enhanced =>
        /\ SpansWithinTheirChapters
        /\ Spans # <<>> => Spans[Len(Spans)].e <= Len(result.content)

\* C22, amended: in every EnhancedText returned, each voice span opens at its
\* Chapter's break and closes before the next break; the last one closes at
\* or before the end of the content unless the rewriting service replaced the
\* content.
C22_SpansCloseBeforeNextBreak ==
    Enhanced =>
        /\ SpansWithinTheirChapters
        /\ (Spans # <<>> /\ ~Rewritten) => Spans[Len(Spans)].e <= Len(result.content)

\* A text of two Chapters or more is returned, with non-empty spans that
\* have the first Chapter's body between them
C22_Witness ==
    /\ pc = "returned"
    /\ Len(Spans) >= 2
    /\ Spans[1].s < Spans[1].e
    /\ Spans[2].s < Spans[2].e
    /\ Spans[1].e + Len(Separator) < Spans[2].s

(***************************************************************************)
(* Properties of the pause markers                                         *)
(***************************************************************************)
RECURSIVE PausesOfVisit(_, _, _)
\* The pause markers of the Chapters visited from the k-th on: for each, one
\* of 1.5 at its break unless it is the first visited, then one of 2.5
\* after its spoken title and the separator
PausesOfVisit(breaks, titles, k) ==
    IF k > Len(breaks) THEN <<>>
    ELSE (IF k > 1 THEN <<[position |-> breaks[k], duration |-> "1.5"]>> ELSE <<>>)
             \o <<[position |-> breaks[k] + Len(titles[k]) + 2, duration |-> "2.5"]>>
             \o PausesOfVisit(breaks, titles, k + 1)

\* C23: the pause_markers returned are, in the order of the visit, for each
\* Chapter the marker (break, 1.5) unless the Chapter is the first visited,
\* followed by the marker (end of title + separator, 2.5): one less than
\* twice the number of Chapters, at non-decreasing offsets; the traversal
\* only ever appends to them.
C23_PauseMarkersInVisitOrder ==
    /\ [](Enhanced =>
            /\ result.pause_markers =
                   PausesOfVisit(result.chapter_breaks,
                                 [k \in DOMAIN result.chapter_titles |-> SpokenTitle(k)], 1)
            /\ result.chapter_titles # <<>> =>
                   Len(result.pause_markers) = 2 * Len(result.chapter_titles) - 1
            /\ \A k \in 1..(Len(result.pause_markers) - 1) :
                   result.pause_markers[k].position <= result.pause_markers[k + 1].position)
    /\ [][/\ Len(pause_markers') >= Len(pause_markers)
          /\ SubSeq(pause_markers', 1, Len(pause_markers)) = pause_markers]_vars

\* A text is returned for a second top-level Chapter that follows a Chapter
\* with a subsection: both later Chapters have their pause of 1.5
C23_Witness ==
    /\ pc = "returned"
    /\ VisitedLevels = <<1, 2, 1>>
    /\ Len(result.pause_markers) = 5
    /\ result.pause_markers[1].duration = "2.5"
    /\ result.pause_markers[2].duration = "1.5"
    /\ result.pause_markers[4].duration = "1.5"
    /\ result.pause_markers[4].position = result.chapter_breaks[3]

(***************************************************************************)
(* Properties of the rewriting pass                                        *)
(***************************************************************************)
\* The rewriting pass is enabled: the processing mode is one that rewrites,
\* and a provider of that mode is enabled in the configuration
RewritingEnabled ==
    \/ config.mode \in {"local_ai", "hybrid"} /\ config.ollama_enabled
    \/ config.mode \in {"api", "hybrid"} /\ config.openai_enabled

\* C24: the rewriting service is called in one step only, that in which
\* enhance_document returns: all Chapters have been appended, no call was
\* made before, and the call is given the whole buffer; no step after it
\* calls again.  When the pass is enabled the call is made, when it is not
\* there is none and the content returned is the pieces joined.
C24_RewriterCalledOnceOnWholeBuffer ==
    /\ [](pc \in {"enhancing", "raised"} => ai_call = NoCall)
    /\ [](Enhanced =>
            /\ RewritingEnabled => /\ ai_call.provider # "none"
                                   /\ ai_call.content = JoinWith(enhanced_content, "")
            /\ ~RewritingEnabled => /\ ai_call = NoCall
                                    /\ result.content = JoinWith(enhanced_content, ""))
    /\ [][ai_call' # ai_call =>
            /\ ai_call = NoCall
            /\ pc = "enhancing" /\ pc' = "returned"
            /\ chapter_titles = TitlesInPreorder
            /\ enhanced_content' = enhanced_content]_vars

\* The rewriting service was called for a buffer of several pieces, and its
\* text has replaced the buffer
C24_Witness ==
    /\ pc = "returned"
    /\ RewritingEnabled
    /\ Rewritten
    /\ Len(enhanced_content) >= 3
    /\ ai_call.content = JoinWith(enhanced_content, "")
    /\ result.content # ai_call.content

(***************************************************************************)
(* Properties of the order of the subscript and superscript rules          *)
(***************************************************************************)
\* The rule of _handle_complex_latex_structures for x_{a}^{b}
CombinedScriptPattern ==
    <<Cap(1, <<OneOf(Letters)>>), Lit("_{"), Cap(2, <<Plus(NoneOf({"}"}))>>), Lit("}^{"),
      Cap(3, <<Plus(NoneOf({"}"}))>>), Lit("}")>>

\* The snippet is one letter with a subscript and a superscript
IsScript(t) == terms = <<Raw(ScriptLatex(t))>>

\* C25 as stated: x_{a}^{b} reaches the rule for the combined form as it was
\* written, no rule for a single subscript or superscript having been
\* applied to it, and is read "x subscript a to the power of b".
C25_CombinedRuleBeforeGenericRules ==
    \A t \in Scripts :
        IsScript(t) =>
            /\ mpc = "structures" => /\ spoken = latex
                                     /\ Search(CombinedScriptPattern, spoken, 1).ok
            /\ mpc = "done" => spoken = t[1] \o " subscript " \o t[2]
                                            \o " to the power of " \o t[3]

\* C25, amended: x_{a}^{b} is read "x subscript a to the power of b"; it is
\* the table's rules for a single subscript and a single superscript that
\* rewrite it, so that the rule for the combined form, applied after the
\* table, finds no subscript or superscript left.
C25_ScriptsReadByGenericRules ==
    \A t \in Scripts :
        IsScript(t) =>
            /\ mpc = "structures" =>
                   /\ spoken = t[1] \o " subscript " \o t[2] \o " to the power of " \o t[3]
                   /\ ~Search(CombinedScriptPattern, spoken, 1).ok
            /\ mpc = "done" => spoken = t[1] \o " subscript " \o t[2]
                                            \o " to the power of " \o t[3]

\* The conversion of A_{ij}^{k} is done
C25_Witness ==
    /\ mpc = "done"
    /\ IsScript(<<"A", "ij", "k">>)
    /\ spoken = "A subscript ij to the power of k"

(***************************************************************************)
(* Properties of the conversion through pandoc                             *)
(***************************************************************************)
\* C26: when pandoc returns its AST as an object with the keys
\* pandoc-api-version, meta and blocks, the spoken text that
\* _extract_math_from_ast makes of the AST is that of the Math elements of
\* its blocks, and it is returned without a call of the fallback.
C26_MathReadFromPandocTree ==
    \A k \in DOMAIN math_log :
        math_log[k].outcome = "ast_dict" =>
            LET ast == PandocAst("ast_dict", math_log[k].latex, math_log[k].is_block)
                blocks == PandocBlocks(math_log[k].latex, math_log[k].is_block)
            IN  /\ ExtractMathFromAst(blocks) # ""
                /\ ExtractMathFromAst(ast) = ExtractMathFromAst(blocks)

(***************************************************************************)
(* Properties of the chapter-local offsets                                 *)
(***************************************************************************)
\* C27: for every chapter record made of a buffer that was not rewritten and
\* every voice span (a, b) of the record, the characters a..b of the record's
\* content are the characters a + break .. b + break of the buffer.
C27_LocalSpansIndexTheSameText ==
    (pc = "split" /\ ~Rewritten /\ Len(result.chapter_breaks) > 0) =>
        \A n \in DOMAIN chapters :
            \A j \in DOMAIN chapters[n].voice_assignments :
                LET a == RangeStart(chapters[n].voice_assignments[j].key)
                    b == RangeEnd(chapters[n].voice_assignments[j].key)
                IN  PySlice(chapters[n].content, a, b)
                        = PySlice(result.content, a + result.chapter_breaks[n],
                                  b + result.chapter_breaks[n])

(***************************************************************************)
(* Properties of the order of the rule table                               *)
(***************************************************************************)
\* C28: the conversion of a snippet that is exactly one command with an
\* entry of its own in the table is the phrase of that entry.
C28_NoEntryShadowed ==
    \A c \in OwnEntries :
        (mpc = "done" /\ terms = <<Raw(c[1])>>) => spoken = c[2]

(***************************************************************************)
(* Properties of the tree of Chapters                                      *)
(***************************************************************************)
\* The nearest header before the n-th that has a lower level; 0 when none has
NearestLowerBefore(nodes, n) ==
    LET lower == {m \in 1..(n - 1) : nodes[m].level < nodes[n].level}
    IN  IF lower = {} THEN 0 ELSE Greatest(lower)

\* C29: for every sequence of headers, the tree has one Chapter for each
\* header, a Chapter's level is greater than its parent's, the parent of a
\* Chapter is the nearest header before it that has a lower level, and the
\* pre-order traversal of the tree, which is the order in which
\* enhance_document records the titles, lists the headers in the order of
\* the source.
C29_TreeListsHeadersInSourceOrder ==
    Enhanced =>
        /\ Len(doc.chapters)
               = Len(SelectSeq(SplitLines(markdown), LAMBDA line : HeaderMatch(line).ok))
        /\ \A n \in DOMAIN doc.chapters :
               /\ doc.chapters[n].parent # 0 =>
                      doc.chapters[doc.chapters[n].parent].level < doc.chapters[n].level
               /\ doc.chapters[n].parent = NearestLowerBefore(doc.chapters, n)
        /\ TreeInPreorder(doc.chapters, AppendedTo(doc.chapters, 0))
               = [n \in DOMAIN doc.chapters |-> n]
        /\ result.chapter_titles = [n \in DOMAIN doc.chapters |-> doc.chapters[n].title]

(***************************************************************************)
(* Properties of the delimiters _wrap_math_in_text inserts                 *)
(***************************************************************************)
\* A notation as _wrap_math_in_text writes it between the delimiters
WrappedForm(p) ==
    IF p.a \in {"Var", "SD"} THEN "\\text{" \o p.a \o "}(" \o p.b \o ")" ELSE p.text

\* The notations of the body, in their order
NotationsOfBody == SelectSeq(body_parts, LAMBDA p : p.kind = "notation")

\* The spans that the wrapper's matcher finds in the wrapped body
SpansFound ==
    [k \in DOMAIN FindAll(LatexPattern, Wrapped, 1) |->
        MatchText(Wrapped, FindAll(LatexPattern, Wrapped, 1)[k])]

\* C30: for a body without a math delimiter, the spans that the wrapper's
\* matcher finds in the wrapped body are the notations of the body, each
\* whole between its two delimiters, and wrapping the wrapped body again
\* changes nothing.
C30_WrappedSpansPairedAndWhole ==
    (Len(body_steps) >= 2 /\ ProseWithoutDelimiters) =>
        /\ SpansFound = [k \in DOMAIN NotationsOfBody |->
                            "$" \o WrappedForm(NotationsOfBody[k]) \o "$"]
        /\ AutoWrapMathematicalExpressions(Wrapped) = Wrapped
=============================================================================
